---- MODULE Spec2Model ----
(***************************************************************************)
(* Model of the collaborative editor of apps/web (operation-based          *)
(* controller): the fingerprint function hashDoc, the operation            *)
(* application engine applyAiOps and the edit session handlers             *)
(* handleAiEdit / handleChatSend with the React state they read and write. *)
(*                                                                         *)
(* A document is the sequence of its top-level text blocks.  A block is a  *)
(* record [level, text]: level 0 is a paragraph, level 1..6 a heading;     *)
(* text is the sequence of UTF-16 code units of its inline text.           *)
(***************************************************************************)
EXTENDS Integers, Sequences, FiniteSets, TLC

(***************************************************************************)
(* Bounds of the model.                                                    *)
(***************************************************************************)
\* the entries the revision log holds before a person or a round adds one
MaxLog == 1
\* the messages the chat holds when a round has ended
MaxChat == 4

(***************************************************************************)
(* JSON.stringify(editor.getJSON()): the serialized document as a sequence *)
(* of UTF-16 code units.  The fragments are the literal pieces of the      *)
(* ProseMirror JSON of a document of paragraphs and headings.              *)
(***************************************************************************)
\* {"type":"doc","content":[
JsonDocOpen ==
  << 123, 34, 116, 121, 112, 101, 34, 58, 34, 100, 111, 99, 34, 44, 34, 99,
     111, 110, 116, 101, 110, 116, 34, 58, 91 >>

\* ]}
JsonDocClose == << 93, 125 >>

\* {"type":"heading","attrs":{"level":
JsonHeadingOpen ==
  << 123, 34, 116, 121, 112, 101, 34, 58, 34, 104, 101, 97, 100, 105, 110,
     103, 34, 44, 34, 97, 116, 116, 114, 115, 34, 58, 123, 34, 108, 101, 118,
     101, 108, 34, 58 >>

\* {"type":"paragraph"
JsonParagraphOpen ==
  << 123, 34, 116, 121, 112, 101, 34, 58, 34, 112, 97, 114, 97, 103, 114, 97,
     112, 104, 34 >>

\* ,"content":[{"type":"text","text":"
JsonContentOpen ==
  << 44, 34, 99, 111, 110, 116, 101, 110, 116, 34, 58, 91, 123, 34, 116, 121,
     112, 101, 34, 58, 34, 116, 101, 120, 116, 34, 44, 34, 116, 101, 120, 116,
     34, 58, 34 >>

\* "}]
JsonContentClose == << 34, 125, 93 >>

\* the digit of a heading level 1..6 ("1" is code unit 49)
JsonDigit(n) == << 48 + n >>

\* one block node; a text block without text has no "content" key
JsonBlock(b) ==
  (IF b.level = 0
     THEN JsonParagraphOpen
     ELSE JsonHeadingOpen \o JsonDigit(b.level) \o << 125 >>)
  \o (IF b.text = << >>
        THEN << >>
        ELSE JsonContentOpen \o b.text \o JsonContentClose)
  \o << 125 >>

RECURSIVE JsonBlocks(_)
JsonBlocks(bs) ==
  IF bs = << >> THEN << >>
  ELSE IF Len(bs) = 1 THEN JsonBlock(bs[1])
  ELSE JsonBlock(Head(bs)) \o << 44 >> \o JsonBlocks(Tail(bs))

JsonStringify(doc) == JsonDocOpen \o JsonBlocks(doc) \o JsonDocClose

(***************************************************************************)
(* hashDoc.  A JavaScript number holding a 32-bit integer is modelled as   *)
(* its two 16-bit halves [hi, lo], so that no product leaves the range of  *)
(* the model checker's integers.  `hash * 33` is exact in a double (below  *)
(* 2^37), and `^` converts both operands with ToInt32, i.e. keeps the low  *)
(* 32 bits of the product; `>>> 0` reads those 32 bits as unsigned.        *)
(***************************************************************************)
HashSeed == 5381
HashMul == 33
Half == 65536

RECURSIVE BitXor(_, _)
BitXor(a, b) ==
  IF a = 0 THEN b
  ELSE IF b = 0 THEN a
  ELSE (((a % 2) + (b % 2)) % 2) + 2 * BitXor(a \div 2, b \div 2)

\* a multiplier of 32 in place of 33: (hash << 5) without `+ hash`
HashTimes32(h) ==
  LET lo == h.lo * 32
      hi == (h.hi * 32) + (lo \div Half)
  IN  [hi |-> hi % Half, lo |-> lo % Half]

\* (hash * 33) reduced to 32 bits by ToInt32
HashTimes33(h) ==
  LET lo == h.lo * HashMul
      hi == (h.hi * HashMul) + (lo \div Half)
  IN  [hi |-> hi % Half, lo |-> lo % Half]

\* the additive variant: hash = (hash * 33) + raw.charCodeAt(i)
HashStepAdd(h, c) ==
  LET m == HashTimes33(h)
      lo == m.lo + c
  IN  [hi |-> (m.hi + (lo \div Half)) % Half, lo |-> lo % Half]

\* hash = (hash * 33) ^ raw.charCodeAt(i)
HashStep(h, c) ==
  LET m == HashTimes33(h)
  IN  [hi |-> m.hi, lo |-> BitXor(m.lo, c)]

\* the loop `for (i = 0; i < raw.length; i += 1)` over the code units
\* raw[from..to], folded by halves to keep the evaluation shallow (the test
\* on left.lo, always true, makes the left half's value be computed first)
RECURSIVE HashFold(_, _, _, _)
HashFold(h, raw, from, to) ==
  IF from > to THEN h
  ELSE IF from = to THEN HashStep(h, raw[from])
  ELSE LET mid == (from + to) \div 2
           left == HashFold(h, raw, from, mid)
       IN  IF left.lo >= 0 THEN HashFold(left, raw, mid + 1, to) ELSE left

\* a hexadecimal digit as a code unit: "0".."9", "a".."f"
HexDigit(d) == IF d < 10 THEN 48 + d ELSE 87 + d

RECURSIVE HexOf(_)
HexOf(n) == IF n < 16 THEN << HexDigit(n) >>
            ELSE HexOf(n \div 16) \o << HexDigit(n % 16) >>

RECURSIVE HexPadded(_, _)
HexPadded(n, width) ==
  IF width = 0 THEN << >>
  ELSE HexPadded(n \div 16, width - 1) \o << HexDigit(n % 16) >>

\* (hash >>> 0).toString(16): no leading zeros
ToString16(h) ==
  IF h.hi = 0 THEN HexOf(h.lo) ELSE HexOf(h.hi) \o HexPadded(h.lo, 4)

hashDoc(doc) ==
  LET raw == JsonStringify(doc)
  IN  ToString16(HashFold([hi |-> 0, lo |-> HashSeed], raw, 1, Len(raw)))

(***************************************************************************)
(* The same loop on the Numbers of the language.  `hash` is a double that  *)
(* holds a signed integer: [neg, hi, lo] stands for the value              *)
(* (+/-)(hi * 2^16 + lo) with 0 <= lo < 2^16 and hi not reduced.           *)
(***************************************************************************)
\* hash * 33, the product of two doubles
NumberTimes33(n) ==
  LET lo == n.lo * HashMul
  IN  [neg |-> n.neg, hi |-> (n.hi * HashMul) + (lo \div Half),
       lo |-> lo % Half]

\* ToInt32 / ToUint32, as the 32 bits of the result: the value modulo 2^32
ToBits32(n) ==
  LET hi == n.hi % Half
  IN  IF ~n.neg THEN [hi |-> hi, lo |-> n.lo]
      ELSE IF n.lo = 0 THEN [hi |-> (Half - hi) % Half, lo |-> 0]
      ELSE [hi |-> (Half - 1) - hi, lo |-> Half - n.lo]

\* the Number that `^` returns for these 32 bits: a signed 32-bit integer
Int32Number(b) ==
  IF b.hi < Half \div 2 THEN [neg |-> FALSE, hi |-> b.hi, lo |-> b.lo]
  ELSE IF b.lo = 0 THEN [neg |-> TRUE, hi |-> Half - b.hi, lo |-> 0]
  ELSE [neg |-> TRUE, hi |-> (Half - 1) - b.hi, lo |-> Half - b.lo]

\* hash = (hash * 33) ^ raw.charCodeAt(i): [hash, whether every product so
\* far was exact]; a double holds an integer of magnitude below
\* 2^53 = 2^16 * 2^37 exactly
NumberStep(st, c) ==
  LET product == NumberTimes33(st.hash)
      bits == ToBits32(product)
  IN  [hash |-> Int32Number([hi |-> bits.hi, lo |-> BitXor(bits.lo, c)]),
       exact |-> st.exact /\ (product.hi \div Half) < 32 * Half]

RECURSIVE NumberFold(_, _, _, _)
NumberFold(st, raw, from, to) ==
  IF from > to THEN st
  ELSE IF from = to THEN NumberStep(st, raw[from])
  ELSE LET mid == (from + to) \div 2
           left == NumberFold(st, raw, from, mid)
       IN  IF left.exact \in BOOLEAN THEN NumberFold(left, raw, mid + 1, to)
           ELSE left

\* the loop of hashDoc over raw, from `let hash = 5381`
NumberLoop(raw) ==
  NumberFold([hash |-> [neg |-> FALSE, hi |-> 0, lo |-> HashSeed],
              exact |-> TRUE], raw, 1, Len(raw))

(***************************************************************************)
(* Strings.  A string is the sequence of its code units; the whitespace    *)
(* removed by String.prototype.trim is tab, line feed, carriage return and *)
(* space.                                                                  *)
(***************************************************************************)
IsSpace(c) == c \in {9, 10, 13, 32}

RECURSIVE trimStart(_)
trimStart(s) ==
  IF s # << >> /\ IsSpace(Head(s)) THEN trimStart(Tail(s)) ELSE s

RECURSIVE trimEnd(_)
trimEnd(s) ==
  IF s # << >> /\ IsSpace(s[Len(s)]) THEN trimEnd(SubSeq(s, 1, Len(s) - 1))
  ELSE s

trim(s) == trimEnd(trimStart(s))

\* a test that every value passes
isAnyValue(value) == TRUE

\* typeof value === 'string' && value.trim().length > 0; an absent field is
\* modelled as the empty string
isNonEmptyString(value) == trim(value) # << >>

\* the text from index i on
Drop(s, i) == SubSeq(s, i, Len(s))

\* the index of the first line feed of s, or 0
RECURSIVE NewlineAt(_, _)
NewlineAt(s, i) ==
  IF i > Len(s) THEN 0 ELSE IF s[i] = 10 THEN i ELSE NewlineAt(s, i + 1)

\* the number of "#" that s starts with
RECURSIVE CountHashes(_)
CountHashes(s) ==
  IF s # << >> /\ Head(s) = 35 THEN 1 + CountHashes(Tail(s)) ELSE 0

(***************************************************************************)
(* Documents.                                                              *)
(***************************************************************************)
Paragraph(text) == [level |-> 0, text |-> text]
Heading(level, text) == [level |-> level, text |-> text]

\* the document a ProseMirror schema with content "block+" falls back to
EmptyDoc == << Paragraph(<< >>) >>

\* editor.isEmpty
IsEmptyDoc(doc) == doc = EmptyDoc

\* a document always holds at least one block
FillDoc(blocks) == IF blocks = << >> THEN EmptyDoc ELSE blocks

\* node.nodeSize of a text block: its text plus the opening and closing token
NodeSize(b) == Len(b.text) + 2

RECURSIVE ContentSize(_)
ContentSize(doc) ==
  IF doc = << >> THEN 0 ELSE NodeSize(Head(doc)) + ContentSize(Tail(doc))

\* the position of block i: the sizes of the blocks before it
BlockPos(doc, i) == ContentSize(SubSeq(doc, 1, i - 1))

(***************************************************************************)
(* Markdown, as the editor's Markdown extension reads and writes it for    *)
(* documents of headings and paragraphs.                                   *)
(***************************************************************************)
\* one line of markdown as a block, or no block for a blank line
ParseLine(line) ==
  LET t == trim(line)
      n == CountHashes(t)
      rest == Drop(t, n + 1)
  IN  IF t = << >> THEN << >>
      ELSE IF n \in 1..6 /\ (rest = << >> \/ IsSpace(Head(rest)))
        THEN << Heading(n, trim(rest)) >>
        ELSE << Paragraph(t) >>

RECURSIVE ParseLines(_)
ParseLines(md) ==
  LET nl == NewlineAt(md, 1)
  IN  IF md = << >> THEN << >>
      ELSE IF nl = 0 THEN ParseLine(md)
      ELSE ParseLine(SubSeq(md, 1, nl - 1)) \o ParseLines(Drop(md, nl + 1))

\* the blocks a markdown text parses to (contentType: 'markdown')
ParseMarkdown(md) == ParseLines(md)

\* "#" repeated n times
Hashes(n) == [i \in 1..n |-> 35]

MarkdownOfBlock(b) ==
  IF b.level = 0 THEN b.text ELSE Hashes(b.level) \o << 32 >> \o b.text

RECURSIVE MarkdownOfBlocks(_)
MarkdownOfBlocks(bs) ==
  IF bs = << >> THEN << >>
  ELSE IF Len(bs) = 1 THEN MarkdownOfBlock(bs[1])
  ELSE MarkdownOfBlock(Head(bs)) \o << 10, 10 >> \o MarkdownOfBlocks(Tail(bs))

\* editor.getMarkdown()
getMarkdown(doc) == MarkdownOfBlocks(doc)

\* md.replace(/\r\n/g, '\n')
RECURSIVE ReplaceCrLf(_)
ReplaceCrLf(md) ==
  IF md = << >> THEN << >>
  ELSE IF Len(md) >= 2 /\ md[1] = 13 /\ md[2] = 10
    THEN << 10 >> \o ReplaceCrLf(Drop(md, 3))
    ELSE << Head(md) >> \o ReplaceCrLf(Tail(md))

normalizeMarkdown(md) == trim(ReplaceCrLf(md)) \o << 10 >>

\* editor.commands.setContent(markdown, { contentType: 'markdown' })
SetContentMarkdown(md) == FillDoc(ParseMarkdown(md))

\* "# a", blank line, "n": a memo of one heading and one paragraph in the
\* place of initial-memo.md, the text the editor starts from
INITIAL_MARKDOWN == << 35, 32, 97, 10, 10, 110, 10 >>

(***************************************************************************)
(* The operation application engine, applyAiOps.                           *)
(*                                                                         *)
(* An operation is a record [op, heading, newHeading, level, markdown]; a  *)
(* field the agent left out is the empty string, and level 0 stands for    *)
(* `typeof op.level !== 'number'`.  An error message is [msg, arg]: the    *)
(* fixed text and the heading text or tag interpolated into it.            *)
(***************************************************************************)
Op(tag, heading, newHeading, level, markdown) ==
  [op |-> tag, heading |-> heading, newHeading |-> newHeading,
   level |-> level, markdown |-> markdown]

Err(msg, arg) == [msg |-> msg, arg |-> arg, tag |-> ""]

\* `Unknown op: ${op.op}`
ErrUnknownOp(tag) == [msg |-> "Unknown op: ", arg |-> << >>, tag |-> tag]

\* readHeadings: pos, level, trimmed text and nodeSize of every heading (and
\* its block index), in document order
RECURSIVE readHeadingsFrom(_, _)
readHeadingsFrom(doc, i) ==
  IF i > Len(doc) THEN << >>
  ELSE (IF doc[i].level > 0
          THEN << [pos |-> BlockPos(doc, i), level |-> doc[i].level,
                   text |-> trim(doc[i].text), nodeSize |-> NodeSize(doc[i]),
                   index |-> i] >>
          ELSE << >>)
       \o readHeadingsFrom(doc, i + 1)

readHeadings(doc) == readHeadingsFrom(doc, 1)

\* a predicate that does not look at the level of the operation
MatchesHeadingAnyLevel(heading, headingText, level) ==
  heading.text = headingText

\* the predicate of headings.find: same text and, when level is a number,
\* same level
MatchesHeading(heading, headingText, level) ==
  /\ heading.text = headingText
  /\ (level # 0 => heading.level = level)

\* headings.find(...): the index in headings of the first match, or 0
FindTarget(headings, headingText, level) ==
  LET hits == { k \in 1..Len(headings) :
                  MatchesHeading(headings[k], headingText, level) }
  IN  IF hits = {} THEN 0 ELSE CHOOSE k \in hits : \A j \in hits : k <= j

\* a section that ends at the next heading of any level
FindNextHeadingAnyLevel(headings, targetIndex, targetLevel) ==
  IF targetIndex < Len(headings) THEN targetIndex + 1 ELSE 0

\* headings.slice(targetIndex + 1).find(heading => heading.level <=
\* targetLevel): its index in headings, or 0
FindNextHeading(headings, targetIndex, targetLevel) ==
  LET hits == { k \in (targetIndex + 1)..Len(headings) :
                  headings[k].level <= targetLevel }
  IN  IF hits = {} THEN 0 ELSE CHOOSE k \in hits : \A j \in hits : k <= j

\* the blocks of doc that start before position pos
RECURSIVE BlocksBefore(_, _)
BlocksBefore(doc, pos) ==
  IF doc = << >> \/ pos <= 0 THEN << >>
  ELSE << Head(doc) >> \o BlocksBefore(Tail(doc), pos - NodeSize(Head(doc)))

\* the blocks of doc that start after position pos
RECURSIVE BlocksAfter(_, _)
BlocksAfter(doc, pos) ==
  IF doc = << >> THEN << >>
  ELSE IF pos < 0 THEN doc
  ELSE BlocksAfter(Tail(doc), pos - NodeSize(Head(doc)))

\* the blocks of doc that start at position pos or later
RECURSIVE BlocksFrom(_, _)
BlocksFrom(doc, pos) ==
  IF doc = << >> THEN << >>
  ELSE IF pos <= 0 THEN doc
  ELSE BlocksFrom(Tail(doc), pos - NodeSize(Head(doc)))

\* a replacement that keeps what was in the range, after the new blocks
InsertAtRange(doc, from, to, blocks) ==
  FillDoc(BlocksBefore(doc, from) \o blocks \o BlocksFrom(doc, from))

\* the range [from, to) of block boundaries replaced by blocks
ReplaceRange(doc, from, to, blocks) ==
  FillDoc(BlocksBefore(doc, from) \o blocks \o BlocksFrom(doc, to))

\* content that always goes to the end of the document
applyMarkdownAtEnd(doc, from, to, markdown) ==
  FillDoc(doc \o ParseMarkdown(markdown))

\* applyMarkdownAtRange: insertContentAt({ from, to }, markdown)
applyMarkdownAtRange(doc, from, to, markdown) ==
  ReplaceRange(doc, from, to, ParseMarkdown(markdown))

\* trimmed.match(/^(#{1,6})\s+([^\n]+)\n?/): the leading heading line of a
\* markdown text, or matched = FALSE
parseLeadingHeading(markdown) ==
  LET trimmed == trimStart(markdown)
      n == CountHashes(trimmed)
      afterHashes == Drop(trimmed, n + 1)
      afterSpace == trimStart(afterHashes)
      nl == NewlineAt(afterSpace, 1)
      line == IF nl = 0 THEN afterSpace ELSE SubSeq(afterSpace, 1, nl - 1)
      spaces == Len(afterHashes) - Len(afterSpace)
      matched == n \in 1..6 /\ spaces > 0 /\ line # << >>
  IN  [matched |-> matched, level |-> n, text |-> trim(line),
       trimmed |-> trimmed,
       matchLength |-> n + spaces + Len(line) + (IF nl = 0 THEN 0 ELSE 1)]

\* .replace(/^\n+/, '')
RECURSIVE StripLeadingNewlines(_)
StripLeadingNewlines(s) ==
  IF s # << >> /\ Head(s) = 10 THEN StripLeadingNewlines(Tail(s)) ELSE s

\* content that is inserted as it was supplied
stripNoHeading(markdown, heading, level) == markdown

stripMatchingHeading(markdown, heading, level) ==
  LET parsed == parseLeadingHeading(markdown)
  IN  IF ~parsed.matched THEN markdown
      ELSE IF parsed.level = level /\ parsed.text = heading
        THEN StripLeadingNewlines(Drop(parsed.trimmed, parsed.matchLength + 1))
        ELSE markdown

\* an engine that pushes every error twice
OutcomeErrorsTwice(doc, applied, errors) ==
  [doc |-> doc, applied |-> applied, errors |-> errors \o errors]

\* the outcome of one operation: the document it leaves, whether it counted
\* as applied, and the errors it pushed
Outcome(doc, applied, errors) ==
  [doc |-> doc, applied |-> applied, errors |-> errors]

\* an append that leaves an empty paragraph when it records its error
ApplyAppendBlank(doc, op) ==
  IF ~isNonEmptyString(op.markdown)
    THEN Outcome(doc \o << Paragraph(<< >>) >>, 0,
                 << Err("Missing markdown in op", << >>) >>)
    ELSE LET endPos == ContentSize(doc)
         IN  Outcome(applyMarkdownAtRange(doc, endPos, endPos, op.markdown),
                     1, << >>)

ApplyAppend(doc, op) ==
  IF ~isNonEmptyString(op.markdown)
    THEN Outcome(doc, 0, << Err("Missing markdown in op", << >>) >>)
    ELSE LET endPos == ContentSize(doc)
         IN  Outcome(applyMarkdownAtRange(doc, endPos, endPos, op.markdown),
                     1, << >>)

\* a rename of every heading that matches, not of the first one only
ApplyRenameEvery(doc, op) ==
  LET headingText == trim(op.heading)
      newHeading == trim(op.newHeading)
      headings == readHeadings(doc)
      t == FindTarget(headings, headingText, op.level)
  IN  IF headingText = << >> \/ newHeading = << >>
        THEN Outcome(doc, 0,
                     << Err("Missing heading/newHeading in op", << >>) >>)
      ELSE IF t = 0
        THEN Outcome(doc, 0, << Err("Heading not found: ", headingText) >>)
      ELSE Outcome([i \in 1..Len(doc) |->
                      IF doc[i].level > 0 /\ trim(doc[i].text) = headingText
                        THEN [doc[i] EXCEPT !.text = newHeading]
                        ELSE doc[i]], 1, << >>)

ApplyRename(doc, op) ==
  LET headingText == trim(op.heading)
      newHeading == trim(op.newHeading)
      headings == readHeadings(doc)
      t == FindTarget(headings, headingText, op.level)
      target == headings[t]
  IN  IF headingText = << >> \/ newHeading = << >>
        THEN Outcome(doc, 0,
                     << Err("Missing heading/newHeading in op", << >>) >>)
      ELSE IF t = 0
        THEN Outcome(doc, 0, << Err("Heading not found: ", headingText) >>)
      \* tr.insertText(newHeading, target.pos + 1,
      \*               target.pos + target.nodeSize - 1)
      ELSE Outcome([doc EXCEPT ![target.index].text = newHeading], 1, << >>)

\* a deletion that starts after the target heading and so keeps it
ApplyDeleteBody(doc, op) ==
  LET headingText == trim(op.heading)
      headings == readHeadings(doc)
      t == FindTarget(headings, headingText, op.level)
      target == headings[t]
      n == FindNextHeading(headings, t, target.level)
      from == target.pos + target.nodeSize
      to == IF n # 0 THEN headings[n].pos ELSE ContentSize(doc)
  IN  IF headingText = << >>
        THEN Outcome(doc, 0, << Err("Missing heading in op", << >>) >>)
      ELSE IF t = 0
        THEN Outcome(doc, 0, << Err("Heading not found: ", headingText) >>)
      ELSE Outcome(ReplaceRange(doc, from, to, << >>), 1, << >>)

ApplyDelete(doc, op) ==
  LET headingText == trim(op.heading)
      headings == readHeadings(doc)
      t == FindTarget(headings, headingText, op.level)
      target == headings[t]
      targetLevel == IF op.level # 0 THEN op.level ELSE target.level
      n == FindNextHeading(headings, t, targetLevel)
      from == target.pos
      to == IF n # 0 THEN headings[n].pos ELSE ContentSize(doc)
  IN  IF headingText = << >>
        THEN Outcome(doc, 0, << Err("Missing heading in op", << >>) >>)
      ELSE IF t = 0
        THEN Outcome(doc, 0, << Err("Heading not found: ", headingText) >>)
      \* tr.delete(from, to)
      ELSE Outcome(ReplaceRange(doc, from, to, << >>), 1, << >>)

\* a tail whose insert_after_heading inserts where the section ends
ApplyAtHeadingSectionEnd(doc, op) ==
  LET headingText == trim(op.heading)
      headings == readHeadings(doc)
      t == FindTarget(headings, headingText, op.level)
      target == headings[t]
      targetLevel == IF op.level # 0 THEN op.level ELSE target.level
      n == FindNextHeading(headings, t, targetLevel)
      from == target.pos + target.nodeSize
      to == IF n # 0 THEN headings[n].pos ELSE ContentSize(doc)
      bodyOnly == stripMatchingHeading(op.markdown, headingText, targetLevel)
  IN  IF headingText = << >>
        THEN Outcome(doc, 0, << Err("Missing heading in op", << >>) >>)
      ELSE IF t = 0
        THEN Outcome(doc, 0, << Err("Heading not found: ", headingText) >>)
      ELSE IF op.op = "replace_section_by_heading"
        THEN IF ~isNonEmptyString(op.markdown)
               THEN Outcome(doc, 0,
                            << Err("Missing markdown in op", << >>) >>)
               ELSE Outcome(applyMarkdownAtRange(doc, from, to, bodyOnly),
                            1, << >>)
      ELSE IF op.op = "insert_after_heading"
        THEN IF ~isNonEmptyString(op.markdown)
               THEN Outcome(doc, 0,
                            << Err("Missing markdown in op", << >>) >>)
               ELSE Outcome(applyMarkdownAtRange(doc, to, to, bodyOnly),
                            1, << >>)
      ELSE Outcome(doc, 0, << ErrUnknownOp(op.op) >>)

\* the shared tail of the forEach body: replace_section_by_heading,
\* insert_after_heading and every other tag
ApplyAtHeading(doc, op) ==
  LET headingText == trim(op.heading)
      headings == readHeadings(doc)
      t == FindTarget(headings, headingText, op.level)
      target == headings[t]
      targetLevel == IF op.level # 0 THEN op.level ELSE target.level
      n == FindNextHeading(headings, t, targetLevel)
      from == target.pos + target.nodeSize
      to == IF n # 0 THEN headings[n].pos ELSE ContentSize(doc)
      bodyOnly == stripMatchingHeading(op.markdown, headingText, targetLevel)
  IN  IF headingText = << >>
        THEN Outcome(doc, 0, << Err("Missing heading in op", << >>) >>)
      ELSE IF t = 0
        THEN Outcome(doc, 0, << Err("Heading not found: ", headingText) >>)
      ELSE IF op.op = "replace_section_by_heading"
        THEN IF ~isNonEmptyString(op.markdown)
               THEN Outcome(doc, 0,
                            << Err("Missing markdown in op", << >>) >>)
               ELSE Outcome(applyMarkdownAtRange(doc, from, to, bodyOnly),
                            1, << >>)
      ELSE IF op.op = "insert_after_heading"
        THEN IF ~isNonEmptyString(op.markdown)
               THEN Outcome(doc, 0,
                            << Err("Missing markdown in op", << >>) >>)
               ELSE Outcome(applyMarkdownAtRange(doc, from, from, bodyOnly),
                            1, << >>)
      ELSE Outcome(doc, 0, << ErrUnknownOp(op.op) >>)

\* a body that passes over a tag it does not know without a word
ApplyOpKnownOnly(doc, op) ==
  IF op.op = "append_markdown" THEN ApplyAppend(doc, op)
  ELSE IF op.op = "rename_heading" THEN ApplyRename(doc, op)
  ELSE IF op.op = "delete_section" THEN ApplyDelete(doc, op)
  ELSE IF op.op \in { "replace_section_by_heading", "insert_after_heading" }
    THEN ApplyAtHeading(doc, op)
  ELSE Outcome(doc, 0, << >>)

\* the body of ops.forEach for one operation
ApplyOp(doc, op) ==
  IF op.op = "append_markdown" THEN ApplyAppend(doc, op)
  ELSE IF op.op = "rename_heading" THEN ApplyRename(doc, op)
  ELSE IF op.op = "delete_section" THEN ApplyDelete(doc, op)
  ELSE ApplyAtHeading(doc, op)

\* a loop that stops at the first operation that recorded an error
RECURSIVE ApplyOpsUntilError(_, _, _)
ApplyOpsUntilError(acc, ops, i) ==
  IF i > Len(ops) \/ acc.errors # << >> THEN acc
  ELSE LET r == ApplyOp(acc.doc, ops[i])
       IN  ApplyOpsUntilError(Outcome(r.doc, acc.applied + r.applied,
                                      acc.errors \o r.errors), ops, i + 1)

\* applyAiOps(ops) on the editor's document: the document after the batch,
\* the count of applied operations and the errors in order
RECURSIVE ApplyOpsFrom(_, _, _)
ApplyOpsFrom(acc, ops, i) ==
  IF i > Len(ops) THEN acc
  ELSE LET r == ApplyOp(acc.doc, ops[i])
       IN  ApplyOpsFrom(Outcome(r.doc, acc.applied + r.applied,
                                acc.errors \o r.errors), ops, i + 1)

applyAiOps(doc, ops) == ApplyOpsFrom(Outcome(doc, 0, << >>), ops, 1)

(***************************************************************************)
(* The state of the App component.                                         *)
(*                                                                         *)
(* The React state is the state of the last committed render: a click or   *)
(* key event runs its handler, and the render and the effects it causes    *)
(* are done before the next event is handled.  canonicalMarkdownRef and    *)
(* aiRunningRef are set by effects to the state of the same name, so each  *)
(* is read as that state.                                                  *)
(***************************************************************************)
VARIABLES
  approach,             \* 'A' | 'B'
  aiRunning,            \* the AI lock
  chatRunning,
  revisionLog,          \* RevisionEntry[], newest first
  canonicalMarkdown,
  chatMessages,         \* ChatMessage[], newest first
  chatInput,
  debouncePending,      \* the timer of debounceRef is armed and has not fired
  lastAppliedMarkdown,  \* [set, md]: set = FALSE is null
  lastSavedJson,        \* the serialized document of the last blur save
  editorDoc,            \* the document of the live editor
  rounds,               \* the calls of handleAiEdit / handleChatSend that
                        \* wait for the agent, each with what it closed over
  pair,                 \* two documents given to hashDoc
  prints,               \* the fingerprints hashDoc returned for them so far
  engine,               \* a call of applyAiOps: the document and the batch it
                        \* started with and where its forEach loop has got to
  trip                  \* a call of roundTripTest: the conversion cycle it
                        \* runs on and what it returned

appVars ==
  << approach, aiRunning, chatRunning, revisionLog, canonicalMarkdown,
     chatMessages, chatInput, debouncePending, lastAppliedMarkdown,
     lastSavedJson, editorDoc, rounds >>

hashVars == << pair, prints >>

\* the variables of the calls of hashDoc and roundTripTest
pureVars == << hashVars, trip >>

vars == << appVars, pureVars, engine >>

NullMarkdown == [set |-> FALSE, md |-> << >>]
SomeMarkdown(md) == [set |-> TRUE, md |-> md]

\* a chat text: the fixed text, the string interpolated into it, the numbers
\* interpolated into it and the engine errors it lists
Text(msg, arg) == [msg |-> msg, arg |-> arg, nums |-> << >>, errs |-> << >>]

ChatMessage(ap, role, text) == [approach |-> ap, role |-> role, text |-> text]

\* a revision entry; the snapshot is a document (approach A) or a markdown
\* text (approach B), the other field is empty
RevisionEntry(ap, actor, summary, snapshotDoc, snapshotMd) ==
  [approach |-> ap, actor |-> actor, summary |-> summary,
   snapshotDoc |-> snapshotDoc, snapshotMd |-> snapshotMd]

\* a log that takes its new entry last
addRevisionLast(log, entry) == log \o << entry >>

\* addRevision / pushChatMessage: the new entry goes first
addRevision(log, entry) == << entry >> \o log

RECURSIVE pushChatMessages(_, _)
pushChatMessages(messages, texts) ==
  IF texts = << >> THEN messages
  ELSE pushChatMessages(<< Head(texts) >> \o messages, Tail(texts))

(***************************************************************************)
(* The effect on [approach, editor, canonicalMarkdown]: an empty editor is *)
(* filled with the initial memo (A) or with canonicalMarkdown (B, unless   *)
(* that text is the one applied last).  It returns the editor document and *)
(* lastAppliedMarkdown after the effect.                                   *)
(***************************************************************************)
ContentEffect(ap, doc, canonical, lastApplied) ==
  IF ap = "A" /\ IsEmptyDoc(doc)
    THEN [doc |-> SetContentMarkdown(INITIAL_MARKDOWN),
          lastApplied |-> lastApplied]
  ELSE IF ap = "B" /\ IsEmptyDoc(doc) /\ lastApplied # SomeMarkdown(canonical)
    THEN [doc |-> SetContentMarkdown(canonical),
          lastApplied |-> SomeMarkdown(canonical)]
  ELSE [doc |-> doc, lastApplied |-> lastApplied]

\* the content a new editor is created with
NewEditorDoc(ap, canonical) ==
  IF ap = "B" THEN SetContentMarkdown(canonical) ELSE EmptyDoc

AppInit ==
  /\ approach = "A"
  /\ aiRunning = FALSE
  /\ chatRunning = FALSE
  /\ revisionLog = << >>
  /\ canonicalMarkdown = INITIAL_MARKDOWN
  /\ chatMessages = << >>
  /\ chatInput = << >>
  /\ debouncePending = FALSE
  /\ lastAppliedMarkdown = NullMarkdown
  /\ lastSavedJson = << >>
  /\ editorDoc = ContentEffect("A", NewEditorDoc("A", INITIAL_MARKDOWN),
                               INITIAL_MARKDOWN, NullMarkdown).doc
  /\ rounds = << >>

\* a call of applyAiOps(ops) on document doc before its first operation:
\* `let applied = 0; const errors = []`
EngineCall(doc, ops) ==
  [start |-> doc, ops |-> ops, done |-> 0, prev |-> doc, doc |-> doc,
   applied |-> 0, errors |-> << >>]

(***************************************************************************)
(* scripts/measure.mjs: the round-trip measurement.  marked and turndown   *)
(* are libraries, so one cycle normalize(htmlToMd(mdToHtml(md))) is a      *)
(* function over a set of markdown texts, and the measurement is modelled  *)
(* for every such function.                                                *)
(***************************************************************************)
MaxTexts == 4

\* normalize(INITIAL_MARKDOWN), the text the measurement starts from
NormalizedInitial == 1

\* roundTripTest(10)
Iterations == 10

\* the loop of roundTripTest from cycle i + 1 on, and its return value
RECURSIVE roundTripFrom(_, _, _, _, _)
roundTripFrom(cycle, iterations, i, md, driftExamples) ==
  IF i >= iterations
    THEN [stabilized |-> Len(driftExamples) = 0,
          driftExamples |-> driftExamples, finalMarkdown |-> md]
  ELSE LET nextMd == cycle[md]
       IN  roundTripFrom(cycle, iterations, i + 1, nextMd,
             IF nextMd # md
               THEN Append(driftExamples,
                           [step |-> i + 1, before |-> md, after |-> nextMd])
             ELSE driftExamples)

roundTripTest(cycle, iterations) ==
  roundTripFrom(cycle, iterations, 0, NormalizedInitial, << >>)

\* a call of roundTripTest that has not returned
RoundTripCall(cycle) ==
  [cycle |-> cycle, returned |-> FALSE,
   result |-> [stabilized |-> FALSE, driftExamples |-> << >>,
               finalMarkdown |-> NormalizedInitial]]

Init ==
  /\ AppInit
  /\ pair = << EmptyDoc, EmptyDoc >>
  /\ prints = << >>
  /\ engine = EngineCall(EmptyDoc, << >>)
  /\ trip = RoundTripCall([t \in 1..MaxTexts |-> t])

(***************************************************************************)
(* The inputs of the model: the documents a person types, the texts of the *)
(* chat box and the responses of the agent server.                         *)
(***************************************************************************)
\* "a" (97), "n" (110), "N" (78) and "z" (122) are the letters of the texts
InitialDoc == SetContentMarkdown(INITIAL_MARKDOWN)

HumanDocs ==
  { InitialDoc, << Heading(1, << 97 >>), Paragraph(<< 110, 78 >>) >> }

ChatInputs == { << >>, << 97 >> }

OpBatches ==
  { << >>,
    << Op("rename_heading", << 122 >>, << 78 >>, 0, << >>) >>,
    << Op("rename_heading", << 122 >>, << 78 >>, 0, << >>),
       Op("rename_heading", << 97 >>, << 78 >>, 0, << >>) >>,
    << Op("delete_section", << 97 >>, << >>, 0, << >>) >> }

\* "# a", blank line, "N": a markdown text the agent returns
AgentMarkdown == << 35, 32, 97, 10, 10, 78 >>

\* the document an html text the agent returns parses to
AgentHtmlDoc == << Heading(1, << 97 >>), Paragraph(<< 78, 78 >>) >>

\* a response: the fetch rejects, the status is not OK, the body is no JSON,
\* or data with ops (hasOps: Array.isArray(data.ops)), markdown, html (as the
\* document it parses to; empty: absent) and reply
Response(kind, hasOps, ops, markdown, html, hasReply) ==
  [kind |-> kind, hasOps |-> hasOps, ops |-> ops, markdown |-> markdown,
   html |-> html, hasReply |-> hasReply]

Responses ==
  { Response(k, FALSE, << >>, << >>, << >>, FALSE) :
      k \in { "reject", "status", "badjson" } }
  \cup { Response("data", TRUE, ops, << >>, << >>, rep) :
           ops \in OpBatches, rep \in BOOLEAN }
  \cup { Response("data", FALSE, << >>, c[1], c[2], rep) :
           c \in { << << >>, << >> >>, << AgentMarkdown, << >> >>,
                   << << >>, AgentHtmlDoc >> },
           rep \in BOOLEAN }

(***************************************************************************)
(* The events of the editor and of the page.                               *)
(***************************************************************************)
\* the revision log of the model has room for one more entry of a person
RoomForRevision == Len(revisionLog) < MaxLog

\* A person types in the editor; the editor is editable while !aiRunning.
\* onUpdate arms the debounce timer in approach B.
\* onUpdate after a person changed the document to d
HumanEditStep(d) ==
  /\ ~aiRunning
  /\ d # editorDoc
  /\ editorDoc' = d
  /\ debouncePending' = IF approach = "B" THEN TRUE ELSE debouncePending
  /\ UNCHANGED << pureVars, engine,
                  approach, aiRunning, chatRunning, revisionLog,
                  canonicalMarkdown, chatMessages, chatInput,
                  lastAppliedMarkdown, lastSavedJson, rounds >>

HumanEdit(d) ==
  /\ approach = "B" => RoomForRevision
  /\ HumanEditStep(d)

\* The document bound to the shared Y.Doc of approach A is changed through
\* that binding, not through the editing surface.
CollabUpdate(d) ==
  /\ approach = "A"
  /\ d # editorDoc
  /\ editorDoc' = d
  /\ UNCHANGED << pureVars, engine,
                  approach, aiRunning, chatRunning, revisionLog,
                  canonicalMarkdown, chatMessages, chatInput,
                  debouncePending, lastAppliedMarkdown, lastSavedJson,
                  rounds >>

\* a debounced save without `if (markdown === canonicalMarkdownRef.current)
\* return`
IdleSaveAlways(markdown) == TRUE

\* the test of the debounced save that lets it record a revision
IdleSaveNeeded(markdown) == markdown # canonicalMarkdown

\* The callback of window.setTimeout(..., 700) runs.
DebounceFire ==
  /\ debouncePending
  /\ debouncePending' = FALSE
  /\ LET markdown == normalizeMarkdown(getMarkdown(editorDoc))
     IN  IF ~IdleSaveNeeded(markdown)
           THEN UNCHANGED << canonicalMarkdown, lastAppliedMarkdown,
                             revisionLog, editorDoc >>
           ELSE LET eff == ContentEffect(approach, editorDoc, markdown,
                                         SomeMarkdown(markdown))
                IN  /\ canonicalMarkdown' = markdown
                    /\ lastAppliedMarkdown' = eff.lastApplied
                    /\ editorDoc' = eff.doc
                    /\ revisionLog' =
                         addRevision(revisionLog,
                           RevisionEntry("B", "human", "Auto-save (idle)",
                                         << >>, markdown))
  /\ UNCHANGED << pureVars, engine,
                  approach, aiRunning, chatRunning, chatMessages,
                  chatInput, lastSavedJson, rounds >>

\* onBlur: the blur save of approach A
BlurStep ==
  /\ approach = "A" /\ ~aiRunning
  /\ LET serialized == JsonStringify(editorDoc)
     IN  /\ serialized # lastSavedJson
         /\ lastSavedJson' = serialized
  /\ revisionLog' =
       addRevision(revisionLog,
         RevisionEntry(approach, "human", "Auto-save (blur)", editorDoc,
                       << >>))
  /\ UNCHANGED << pureVars, engine, approach, aiRunning, chatRunning,
                  canonicalMarkdown, chatMessages, chatInput,
                  debouncePending, lastAppliedMarkdown, editorDoc,
                  rounds >>

Blur == RoomForRevision /\ BlurStep

\* Save checkpoint (the button is disabled while aiRunning)
CheckpointStep ==
  /\ ~aiRunning
  /\ revisionLog' =
       addRevision(revisionLog,
         IF approach = "A"
           THEN RevisionEntry(approach, "human", "Human checkpoint",
                              editorDoc, << >>)
           ELSE RevisionEntry(approach, "human",
                              "Human checkpoint (markdown)", << >>,
                              canonicalMarkdown))
  /\ UNCHANGED << pureVars, engine, approach, aiRunning, chatRunning,
                  canonicalMarkdown, chatMessages, chatInput,
                  debouncePending, lastAppliedMarkdown, lastSavedJson,
                  editorDoc, rounds >>

handleCheckpoint == RoomForRevision /\ CheckpointStep

\* a rollback without `if (entry.approach !== approach) return`
RollbackAnyApproach(entry) == TRUE

\* the test of handleRollback that lets the rollback go on
RollbackGuard(entry) == entry.approach = approach

\* handleRollback(entry) for entry i of the revision log (the buttons are
\* disabled while aiRunning; the list shows the entries of the active
\* approach, and for an entry of the other approach the handler returns at
\* once).
handleRollback(i) ==
  LET entry == revisionLog[i]
      markdown == entry.snapshotMd
      eff == ContentEffect(approach, SetContentMarkdown(markdown), markdown,
                           SomeMarkdown(markdown))
  IN  /\ ~aiRunning
      /\ IF ~RollbackGuard(entry)
           THEN UNCHANGED << editorDoc, canonicalMarkdown,
                             lastAppliedMarkdown >>
         ELSE IF approach = "A"
           THEN /\ editorDoc' = FillDoc(entry.snapshotDoc)
                /\ UNCHANGED << canonicalMarkdown, lastAppliedMarkdown >>
           ELSE /\ canonicalMarkdown' = markdown
                /\ editorDoc' = eff.doc
                /\ lastAppliedMarkdown' = eff.lastApplied
      /\ UNCHANGED << pureVars, engine,
                      approach, aiRunning, chatRunning, revisionLog,
                      chatMessages, chatInput, debouncePending,
                      lastSavedJson, rounds >>

\* The editor of a round that was replaced by a new one keeps the document
\* it had.
Detach(r) == IF r.live THEN [r EXCEPT !.live = FALSE, !.edDoc = editorDoc]
             ELSE r

\* Run A / Run B: resetForApproach(nextApproach), the new editor that
\* useEditor makes when approach changes, and the content effect.
resetForApproach(nextApproach) ==
  LET changed == nextApproach # approach
      doc0 == IF changed THEN NewEditorDoc(nextApproach, INITIAL_MARKDOWN)
              ELSE editorDoc
      eff == IF changed \/ canonicalMarkdown # INITIAL_MARKDOWN
               THEN ContentEffect(nextApproach, doc0, INITIAL_MARKDOWN,
                                  NullMarkdown)
               ELSE [doc |-> doc0, lastApplied |-> NullMarkdown]
  IN  /\ approach' = nextApproach
      /\ revisionLog' = << >>
      /\ canonicalMarkdown' = INITIAL_MARKDOWN
      /\ chatMessages' = << >>
      /\ chatInput' = << >>
      /\ lastAppliedMarkdown' = eff.lastApplied
      /\ lastSavedJson' = << >>
      /\ debouncePending' = FALSE
      /\ editorDoc' = eff.doc
      /\ rounds' = IF changed THEN [k \in 1..Len(rounds) |-> Detach(rounds[k])]
                   ELSE rounds
      /\ UNCHANGED << pureVars, engine, aiRunning, chatRunning >>

\* A person types in the chat box (disabled while aiRunning || chatRunning).
ChatInputChange(text) ==
  /\ ~aiRunning /\ ~chatRunning
  /\ text # chatInput
  /\ chatInput' = text
  /\ UNCHANGED << pureVars, engine,
                  approach, aiRunning, chatRunning, revisionLog,
                  canonicalMarkdown, chatMessages, debouncePending,
                  lastAppliedMarkdown, lastSavedJson, editorDoc,
                  rounds >>

(***************************************************************************)
(* An agent round: a call of handleAiEdit or handleChatSend from the part  *)
(* before `await fetch` (the start) to the part after it (the response).   *)
(* A round holds what the call closed over: the approach, the editor (live *)
(* or replaced since, with its document), baseDoc, baseHash and the        *)
(* markdown of the payload.                                                *)
(***************************************************************************)
\* a round whose baseHash is not the fingerprint of its baseDoc
RoundOtherHash(kind, ap, baseDoc, baseHash, markdown) ==
  [kind |-> kind, approach |-> ap, live |-> TRUE, edDoc |-> << >>,
   baseDoc |-> baseDoc, baseHash |-> hashDoc(EmptyDoc), markdown |-> markdown]

Round(kind, ap, baseDoc, baseHash, markdown) ==
  [kind |-> kind, approach |-> ap, live |-> TRUE, edDoc |-> << >>,
   baseDoc |-> baseDoc, baseHash |-> baseHash, markdown |-> markdown]

\* editor.getJSON() in the round's closure
RoundEditorDoc(r) == IF r.live THEN editorDoc ELSE r.edDoc

\* the document the payload shows the agent: docJson (A), markdown (B)
ShownDoc(r) ==
  IF r.approach = "A" THEN r.baseDoc ELSE SetContentMarkdown(r.markdown)

RemoveAt(s, i) == SubSeq(s, 1, i - 1) \o SubSeq(s, i + 1, Len(s))

DefaultInstruction ==
  Text("Add a Tips for Success section with three helpful onboarding tips.",
       << >>)
ConflictText ==
  Text("Document changed while the AI was editing. Please retry.", << >>)
StatusText == Text("AI is updating the document...", << >>)
ReplyText == Text("data.reply", << >>)

\* the text of an engine error
ErrorText(e) == Text(e.msg, e.arg)

\* a warning that lists every error
formatOpResultMessageUncapped(result, total) ==
  IF Len(result.errors) = 0 THEN << >>
  ELSE << [msg |-> "Applied X/Y ops. Failed: ", arg |-> << >>,
           nums |-> << result.applied, total, 0 >>,
           errs |-> result.errors] >>

\* formatOpResultMessage: no message, or "Applied X/Y ops. Failed: ..." with
\* the first three errors and a mark when there are more
formatOpResultMessage(result, total) ==
  IF Len(result.errors) = 0 THEN << >>
  ELSE << [msg |-> "Applied X/Y ops. Failed: ", arg |-> << >>,
           nums |-> << result.applied, total,
                       IF Len(result.errors) > 3 THEN 1 ELSE 0 >>,
           errs |-> SubSeq(result.errors, 1,
                           IF Len(result.errors) > 3 THEN 3
                           ELSE Len(result.errors))] >>

\* a handler without the comparison of the fingerprints
BaseMatchesAlways(currentHash, baseHash) == TRUE

\* currentHash !== baseHash decides the conflict
BaseMatches(currentHash, baseHash) == currentHash = baseHash

\* what the part of a handler after the await did: the branch taken, the
\* assistant texts pushed (in order), the round's editor document, the
\* revision entries added, and canonicalMarkdown / lastAppliedMarkdown when
\* they were set
Effects(path, texts, doc, revs, canonical, lastApplied) ==
  [path |-> path, texts |-> texts, doc |-> doc, revs |-> revs,
   canonical |-> canonical, lastApplied |-> lastApplied]

AiRevision(ap, snapshotDoc, snapshotMd) ==
  RevisionEntry(ap, "ai", "AI edit", snapshotDoc, snapshotMd)

\* the text pushed by the catch block for a failed request
TransportText(kind, label) ==
  IF kind = "reject" THEN Text("Failed to fetch", << >>)
  ELSE IF kind = "status" THEN Text(label, << >>)
  ELSE Text("Unexpected token in JSON", << >>)

\* a handler that returns silently when data.ops is not an array
AiEditNoOpsSilent(r, resp, ed) ==
  Effects("noops", << >>, ed, << >>, NullMarkdown, NullMarkdown)

\* a handler that takes the full content of an answer without operations
AiEditNoOpsReplaces(r, resp, ed) ==
  Effects("noops", << Text("AI edit returned no ops", << >>) >>,
          IF resp.html # << >> THEN resp.html
          ELSE IF isNonEmptyString(resp.markdown)
            THEN SetContentMarkdown(resp.markdown)
          ELSE ed,
          << >>, NullMarkdown, NullMarkdown)

\* handleAiEdit, approach A, data.ops is not an array
AiEditNoOps(r, resp, ed) ==
  Effects("noops", << Text("AI edit returned no ops", << >>) >>, ed, << >>,
          NullMarkdown, NullMarkdown)

\* handleAiEdit, approach A, after `const result = applyAiOps(data.ops)`
AiEditApplied(r, resp, result, reply) ==
  IF result.applied = 0
    THEN Effects("zero",
           << StatusText,
              IF Len(result.errors) > 0
                THEN ErrorText(result.errors[1])
                ELSE Text("AI edit returned no valid ops", << >>) >>,
           result.doc, << >>, NullMarkdown, NullMarkdown)
    ELSE Effects("applied",
           << StatusText >>
             \o formatOpResultMessage(result, Len(resp.ops))
             \o reply,
           result.doc,
           << AiRevision(r.approach, result.doc, << >>) >>,
           NullMarkdown, NullMarkdown)

\* handleAiEdit, approach B: the normalized markdown replaces the document
AiEditReplaced(r, path, doc, markdown, reply) ==
  Effects(path, << StatusText >> \o reply, doc,
          << AiRevision(r.approach, << >>, markdown) >>,
          SomeMarkdown(markdown), SomeMarkdown(markdown))

\* handleAiEdit after `await fetch`, up to the catch block
AiEditEffects(r, resp, ed, currentHash) ==
  LET reply == IF resp.hasReply THEN << ReplyText >> ELSE << >>
  IN
  IF resp.kind # "data"
    THEN Effects(resp.kind, << TransportText(resp.kind, "Agent error: ") >>,
                 ed, << >>, NullMarkdown, NullMarkdown)
  ELSE IF r.approach = "A"
    THEN IF ~resp.hasOps THEN AiEditNoOps(r, resp, ed)
         ELSE IF ~BaseMatches(currentHash, r.baseHash)
           THEN Effects("conflict", << ConflictText >>, ed, << >>,
                        NullMarkdown, NullMarkdown)
         ELSE AiEditApplied(r, resp, applyAiOps(ed, resp.ops), reply)
  ELSE IF isNonEmptyString(resp.markdown)
    THEN AiEditReplaced(r, "markdown",
                        SetContentMarkdown(normalizeMarkdown(resp.markdown)),
                        normalizeMarkdown(resp.markdown), reply)
  ELSE IF resp.html # << >>
    THEN AiEditReplaced(r, "html", resp.html,
                        normalizeMarkdown(getMarkdown(resp.html)), reply)
  ELSE Effects("nocontent", << Text("AI edit returned no markdown", << >>) >>,
               ed, << >>, NullMarkdown, NullMarkdown)

\* a handleChatSend that adds its revision entry without the test
\* `result.applied > 0`
ChatSendRevisionAlways(r, resp, result, reply) ==
  Effects(IF result.applied > 0 THEN "applied" ELSE "zero",
    << StatusText >>
      \o formatOpResultMessage(result, Len(resp.ops))
      \o reply,
    result.doc,
    << AiRevision(r.approach, result.doc, << >>) >>,
    NullMarkdown, NullMarkdown)

\* handleChatSend, approach A, after `const result = applyAiOps(data.ops)`
ChatSendApplied(r, resp, result, reply) ==
  Effects(IF result.applied > 0 THEN "applied" ELSE "zero",
    << StatusText >>
      \o formatOpResultMessage(result, Len(resp.ops))
      \o reply,
    result.doc,
    IF result.applied > 0
      THEN << AiRevision(r.approach, result.doc, << >>) >>
      ELSE << >>,
    NullMarkdown, NullMarkdown)

\* handleChatSend, approach B: the content is set, then read back as
\* markdown
ChatSendReplaced(r, path, doc, reply) ==
  AiEditReplaced(r, path, doc, normalizeMarkdown(getMarkdown(doc)), reply)

\* handleChatSend after `await fetch`, up to the catch block
ChatSendEffects(r, resp, ed, currentHash) ==
  LET reply == << IF resp.hasReply THEN ReplyText
                  ELSE Text("No reply", << >>) >>
      hasContent == resp.markdown # << >> \/ resp.html # << >>
  IN
  IF resp.kind # "data"
    THEN Effects(resp.kind, << TransportText(resp.kind, "Chat error: ") >>,
                 ed, << >>, NullMarkdown, NullMarkdown)
  ELSE IF r.approach = "A"
    THEN IF ~resp.hasOps
           THEN Effects("noops",
                  (IF hasContent
                     THEN << Text("AI did not return ops. Please retry.",
                                  << >>) >>
                     ELSE << >>) \o reply,
                  ed, << >>, NullMarkdown, NullMarkdown)
         ELSE IF ~BaseMatches(currentHash, r.baseHash)
           THEN Effects("conflict", << ConflictText >> \o reply, ed, << >>,
                        NullMarkdown, NullMarkdown)
         ELSE ChatSendApplied(r, resp, applyAiOps(ed, resp.ops), reply)
  ELSE IF isNonEmptyString(resp.markdown)
    THEN ChatSendReplaced(r, "markdown", SetContentMarkdown(resp.markdown),
                          reply)
  ELSE IF resp.html # << >>
    THEN ChatSendReplaced(r, "html", resp.html, reply)
  ELSE Effects("nocontent", reply, ed, << >>, NullMarkdown, NullMarkdown)

\* setAiRunning(false) at the end of the try block instead: the `return` of
\* the conflict branch leaves before it
AiEditUnlockInTry(eff) == eff.path = "conflict"

\* finally { setAiRunning(false) }: aiRunning after a handleAiEdit round
AiEditFinally(eff) == FALSE

\* finally { setChatRunning(false); setAiRunning(false) }: both flags after a
\* handleChatSend round
ChatSendFinally(eff) == FALSE

\* a handleAiEdit without `if (!editor || aiRunning) return`
AiEditUnguarded == TRUE

\* if (!editor || aiRunning) return
AiEditGuard == ~aiRunning

\* if (!message || chatRunning || aiRunning) return
ChatSendGuard == trim(chatInput) # << >> /\ ~chatRunning /\ ~aiRunning

\* the chat and the revision log of the model have room for what a round
\* adds: at most four messages and one entry
RoomForRound ==
  /\ Len(chatMessages) + 4 <= MaxChat
  /\ RoomForRevision

\* the part of a handler before `await fetch`
StartRound(kind, userText) ==
  /\ chatMessages' =
       pushChatMessages(chatMessages,
                        << ChatMessage(approach, "user", userText) >>)
  /\ chatInput' = << >>
  /\ aiRunning' = TRUE
  /\ chatRunning' = IF kind = "chat" THEN TRUE ELSE chatRunning
  /\ rounds' =
       Append(rounds,
              Round(kind, approach, editorDoc, hashDoc(editorDoc),
                    IF approach = "A" THEN getMarkdown(editorDoc)
                    ELSE canonicalMarkdown))
  /\ UNCHANGED << pureVars, engine, approach, revisionLog, canonicalMarkdown,
                  debouncePending, lastAppliedMarkdown, lastSavedJson,
                  editorDoc >>

\* a call of handleAiEdit
handleAiEdit ==
  IF AiEditGuard /\ RoomForRound
    THEN StartRound("edit",
                    IF trim(chatInput) # << >>
                      THEN Text("instruction", trim(chatInput))
                      ELSE DefaultInstruction)
    ELSE UNCHANGED vars

\* a call of handleChatSend
handleChatSend ==
  IF ChatSendGuard /\ RoomForRound
    THEN StartRound("chat", Text("instruction", trim(chatInput)))
    ELSE UNCHANGED vars

\* The state after the part of a handler behind the await ran with effects
\* eff for round i, and after the render and the content effect it causes.
Settle(i, eff, aiRunningAfter, chatRunningAfter) ==
  LET r == rounds[i]
      texts == [k \in 1..Len(eff.texts) |->
                  ChatMessage(r.approach, "assistant", eff.texts[k])]
      canonical == IF eff.canonical.set THEN eff.canonical.md
                   ELSE canonicalMarkdown
      lastApplied == IF eff.lastApplied.set THEN eff.lastApplied
                     ELSE lastAppliedMarkdown
      doc == IF r.live THEN eff.doc ELSE editorDoc
      after == IF canonical # canonicalMarkdown
                 THEN ContentEffect(approach, doc, canonical, lastApplied)
                 ELSE [doc |-> doc, lastApplied |-> lastApplied]
  IN  /\ chatMessages' = pushChatMessages(chatMessages, texts)
      /\ revisionLog' = eff.revs \o revisionLog
      /\ canonicalMarkdown' = canonical
      /\ lastAppliedMarkdown' = after.lastApplied
      /\ editorDoc' = after.doc
      /\ aiRunning' = aiRunningAfter
      /\ chatRunning' = chatRunningAfter
      /\ rounds' = RemoveAt(rounds, i)
      /\ UNCHANGED << pureVars, engine, approach, chatInput, debouncePending,
                      lastSavedJson >>

\* the catch and finally blocks of the two handlers
AiEditSettle(i, eff) == Settle(i, eff, AiEditFinally(eff), chatRunning)

\* a finally block of handleChatSend that clears the AI lock only
ChatSendSettleLockOnly(i, eff) == Settle(i, eff, FALSE, chatRunning)

ChatSendSettle(i, eff) ==
  Settle(i, eff, ChatSendFinally(eff), ChatSendFinally(eff))

\* the agent's answer to round i of handleAiEdit arrives
AiEditResponse(i, resp) ==
  /\ rounds[i].kind = "edit"
  /\ AiEditSettle(i, AiEditEffects(rounds[i], resp,
                                    RoundEditorDoc(rounds[i]),
                                    hashDoc(RoundEditorDoc(rounds[i]))))

\* the agent's answer to round i of handleChatSend arrives
ChatSendResponse(i, resp) ==
  /\ rounds[i].kind = "chat"
  /\ ChatSendSettle(i, ChatSendEffects(rounds[i], resp,
                                        RoundEditorDoc(rounds[i]),
                                        hashDoc(RoundEditorDoc(rounds[i]))))

\* the agent answers a round
Responds ==
  \E i \in 1..Len(rounds), resp \in Responses :
    AiEditResponse(i, resp) \/ ChatSendResponse(i, resp)

Next ==
  \/ \E d \in HumanDocs : HumanEdit(d)
  \/ \E d \in HumanDocs : CollabUpdate(d)
  \/ DebounceFire
  \/ Blur
  \/ handleCheckpoint
  \/ \E i \in 1..Len(revisionLog) : handleRollback(i)
  \/ \E a \in { "A", "B" } : resetForApproach(a)
  \/ \E text \in ChatInputs : ChatInputChange(text)
  \/ handleAiEdit
  \/ handleChatSend
  \/ Responds

Spec == Init /\ [][Next]_vars

\* every request to the agent server is answered or fails in the end
FairSpec == Spec /\ WF_vars(Responds)

(***************************************************************************)
(* hashDoc on its own: two documents of one block each are drawn, and the  *)
(* function is called on the first and then on the second.                 *)
(***************************************************************************)
\* the longest text of a block given to hashDoc
MaxTextLen == 2

HashLetters == { 97, 110, 78 }

HashTexts == UNION { [1..k -> HashLetters] : k \in 0..MaxTextLen }

HashDocs ==
  { << [level |-> l, text |-> t] >> : l \in 0..2, t \in HashTexts }

HashInit ==
  /\ AppInit
  /\ pair \in HashDocs \X HashDocs
  /\ prints = << >>
  /\ engine = EngineCall(EmptyDoc, << >>)
  /\ trip = RoundTripCall([t \in 1..MaxTexts |-> t])

\* const hash = hashDoc(doc) for the next document of the pair
Fingerprint ==
  /\ Len(prints) < 2
  /\ prints' = Append(prints, hashDoc(pair[Len(prints) + 1]))
  /\ UNCHANGED << appVars, pair, engine, trip >>

HashNext == Fingerprint

HashSpec == HashInit /\ [][HashNext]_vars

(***************************************************************************)
(* applyAiOps on its own: a document and a batch are drawn, and each step  *)
(* runs the body of ops.forEach for the next operation of the batch.       *)
(***************************************************************************)
\* the most blocks of a document given to applyAiOps
MaxBlocks == 3

\* paragraph "n", headings "a" of level 1 and 2, heading "b" of level 2 and
\* a level 2 heading "a " whose text ends with a space
EngineBlocks ==
  { Paragraph(<< 110 >>), Heading(1, << 97 >>), Heading(2, << 97 >>),
    Heading(2, << 98 >>), Heading(2, << 97, 32 >>) }

EngineDocs == UNION { [1..k -> EngineBlocks] : k \in 1..MaxBlocks }

\* "## a", line feed, "N"
SectionMarkdown == << 35, 35, 32, 97, 10, 78 >>

\* "## b", line feed, "N"
NewSectionMarkdown == << 35, 35, 32, 98, 10, 78 >>

EngineOps ==
  { Op("rename_heading", << 97 >>, << 98 >>, 0, << >>),
    Op("rename_heading", << 97 >>, << 97 >>, 0, << >>),
    Op("rename_heading", << 65 >>, << 98 >>, 0, << >>),
    Op("rename_heading", << 97 >>, << >>, 0, << >>),
    Op("delete_section", << 97 >>, << >>, 0, << >>),
    Op("delete_section", << 97 >>, << >>, 2, << >>),
    Op("delete_section", << 98 >>, << >>, 0, << >>),
    Op("replace_section_by_heading", << 32, 97 >>, << >>, 0,
       SectionMarkdown),
    Op("insert_after_heading", << 97 >>, << >>, 0, SectionMarkdown),
    Op("insert_after_heading", << 97 >>, << >>, 2, SectionMarkdown),
    Op("append_markdown", << >>, << >>, 0, NewSectionMarkdown),
    Op("format_document", << 97 >>, << >>, 0, << >>) }

\* the batches of at most two operations
EngineBatches ==
  { << >> } \cup { << o >> : o \in EngineOps }
  \cup { << o, p >> : o \in EngineOps, p \in EngineOps }

\* "Missing", "X" and "## New", line feed, "body"
TextMissing == << 77, 105, 115, 115, 105, 110, 103 >>
TextX == << 88 >>
TextNew == << 78, 101, 119 >>
TextBody == << 98, 111, 100, 121 >>
MarkdownNewBody == << 35, 35, 32 >> \o TextNew \o << 10 >> \o TextBody

\* "Overview", "Steps", "Risks" and "Open Risks"
TextOverview == << 79, 118, 101, 114, 118, 105, 101, 119 >>
TextSteps == << 83, 116, 101, 112, 115 >>
TextRisks == << 82, 105, 115, 107, 115 >>
TextOpenRisks == << 79, 112, 101, 110, 32 >> \o TextRisks

\* a document without a heading "Missing" and the batch
\* [rename_heading("Missing", "X"), append_markdown("## New\nbody")]
MissingThenAppend ==
  EngineCall(<< Heading(1, << 97 >>), Paragraph(<< 110 >>) >>,
             << Op("rename_heading", TextMissing, TextX, 0, << >>),
                Op("append_markdown", << >>, << >>, 0, MarkdownNewBody) >>)

\* level-2 headings [Overview, Steps, Risks] and
\* rename_heading("Risks", "Open Risks")
RenameRisks ==
  EngineCall(<< Heading(2, TextOverview), Heading(2, TextSteps),
                Heading(2, TextRisks) >>,
             << Op("rename_heading", TextRisks, TextOpenRisks, 0, << >>) >>)

\* the items of a list, each a block of the model that holds its line:
\* "1. a", "2. b", "3. c", and the content "4. Review"
TextItem1 == << 49, 46, 32, 97 >>
TextItem2 == << 50, 46, 32, 98 >>
TextItem3 == << 51, 46, 32, 99 >>
MarkdownItem4 == << 52, 46, 32, 82, 101, 118, 105, 101, 119 >>

\* a "Steps" section with three items, followed by a "Risks" section, and
\* insert_after_heading("Steps", level 2, "4. Review")
InsertReview ==
  EngineCall(<< Heading(2, TextSteps), Paragraph(TextItem1),
                Paragraph(TextItem2), Paragraph(TextItem3),
                Heading(2, TextRisks) >>,
             << Op("insert_after_heading", TextSteps, << >>, 2,
                   MarkdownItem4) >>)

\* operations with a field that is absent or blank: append_markdown
\* without markdown and with markdown " ", line feed; a tag that is none
\* of the five, without a heading
EdgeOps ==
  { Op("append_markdown", << >>, << >>, 0, << >>),
    Op("append_markdown", << >>, << >>, 0, << 32, 10 >>),
    Op("format_document", << >>, << >>, 0, << >>) }

EdgeCalls == { EngineCall(d, << o >>) : d \in EngineDocs, o \in EdgeOps }

\* batches of three to MaxErrors operations, each a rename of a heading
\* that does not exist or an append, on a document of a heading and a
\* paragraph
MaxErrors == 5

LongOps ==
  { Op("rename_heading", << 65 >>, << 98 >>, 0, << >>),
    Op("delete_section", << 122 >>, << >>, 0, << >>),
    Op("append_markdown", << >>, << >>, 0, << 78 >>) }

LongCalls ==
  { EngineCall(<< Heading(1, << 97 >>), Paragraph(<< 110 >>) >>, b) :
      b \in UNION { [1..k -> LongOps] : k \in 3..MaxErrors } }

EngineInit ==
  /\ AppInit
  /\ pair = << EmptyDoc, EmptyDoc >>
  /\ prints = << >>
  /\ engine \in { EngineCall(d, b) : d \in EngineDocs, b \in EngineBatches }
                  \cup { MissingThenAppend, RenameRisks, InsertReview }
                  \cup EdgeCalls \cup LongCalls
  /\ trip = RoundTripCall([t \in 1..MaxTexts |-> t])

\* a loop whose operations do not change the document the next one reads
EngineAfterStale(e, r) ==
  [e EXCEPT !.done = e.done + 1, !.prev = e.doc,
            !.applied = e.applied + r.applied,
            !.errors = e.errors \o r.errors]

\* the call after the body of forEach ran for its next operation with
\* outcome r
EngineAfter(e, r) ==
  [e EXCEPT !.done = e.done + 1, !.prev = e.doc, !.doc = r.doc,
            !.applied = e.applied + r.applied,
            !.errors = e.errors \o r.errors]

\* ops.forEach: the body runs for the next operation
ApplyNextOp ==
  /\ engine.done < Len(engine.ops)
  /\ engine' = EngineAfter(engine, ApplyOp(engine.doc,
                                           engine.ops[engine.done + 1]))
  /\ UNCHANGED << appVars, pureVars >>

EngineNext == ApplyNextOp

EngineSpec == EngineInit /\ [][EngineNext]_vars

(***************************************************************************)
(* The revision history of a person who works alone: the editor events,    *)
(* the checkpoints, the rollbacks and the resets of the page, with no      *)
(* round of the agent, and a log of up to MaxSaves entries.                *)
(***************************************************************************)
MaxSaves == 3

HistoryNext ==
  \/ \E d \in HumanDocs :
       /\ approach = "B" => Len(revisionLog) < MaxSaves
       /\ HumanEditStep(d)
  \/ \E d \in HumanDocs : CollabUpdate(d)
  \/ DebounceFire
  \/ Len(revisionLog) < MaxSaves /\ BlurStep
  \/ Len(revisionLog) < MaxSaves /\ CheckpointStep
  \/ \E i \in 1..Len(revisionLog) : handleRollback(i)
  \/ \E a \in { "A", "B" } : resetForApproach(a)

HistorySpec == Init /\ [][HistoryNext]_vars

(***************************************************************************)
(* The measurement script: roundTripTest(10) for every conversion cycle    *)
(* over MaxTexts texts.                                                    *)
(***************************************************************************)
RoundTripInit ==
  /\ AppInit
  /\ pair = << EmptyDoc, EmptyDoc >>
  /\ prints = << >>
  /\ engine = EngineCall(EmptyDoc, << >>)
  /\ trip \in { RoundTripCall(cycle) :
                 cycle \in [1..MaxTexts -> 1..MaxTexts] }

\* const roundTrip = roundTripTest(10)
RoundTrip ==
  /\ ~trip.returned
  /\ trip' = [trip EXCEPT !.returned = TRUE,
                          !.result = roundTripTest(trip.cycle, Iterations)]
  /\ UNCHANGED << appVars, hashVars, engine >>

RoundTripNext == RoundTrip

RoundTripSpec == RoundTripInit /\ [][RoundTripNext]_vars

(***************************************************************************)
(* Properties.                                                             *)
(***************************************************************************)
\* the answer resp to round i is handled in this step
Answered(i, resp) == AiEditResponse(i, resp) \/ ChatSendResponse(i, resp)

\* the texts of the assistant messages this step pushed to the chat
PushedTexts ==
  { chatMessages'[k].text :
      k \in { j \in 1..(Len(chatMessages') - Len(chatMessages)) :
                chatMessages'[j].role = "assistant" } }

\* the response carries an operations array for an approach A round
HasBatch(i, resp) ==
  rounds[i].approach = "A" /\ resp.kind = "data" /\ resp.hasOps

\* the fingerprint of the round's document when the answer arrives
CurrentHash(i) == hashDoc(RoundEditorDoc(rounds[i]))

\* C1: in approach A, in both handlers, an answer that arrives when the
\* document's fingerprint differs from the round's base fingerprint applies
\* no operation: the document and the revision log stay as they are, the
\* conflict message is pushed, the lock is released and the fingerprint of
\* the document is the same after the step as before it.
C1_ConflictRejected ==
  [][\A i \in 1..Len(rounds) :
       (rounds' # rounds /\ CurrentHash(i) # rounds[i].baseHash)
       => \A resp \in Responses :
            (HasBatch(i, resp) /\ Answered(i, resp))
            =>
          /\ editorDoc' = editorDoc
          /\ revisionLog' = revisionLog
          /\ ConflictText \in PushedTexts
          /\ ~aiRunning'
          /\ hashDoc(editorDoc') = hashDoc(editorDoc)]_vars

\* a round of handleChatSend ended with the conflict message
C1_Witness ==
  /\ ~aiRunning /\ rounds = << >>
  /\ \E k \in 1..Len(chatMessages) :
       chatMessages[k] = ChatMessage("A", "assistant", ConflictText)
  /\ revisionLog = << >>

\* a round ends in this step and its answer was applied: the round added
\* the revision entry of actor ai
RoundApplied ==
  /\ rounds # << >> /\ rounds' = << >>
  /\ Len(revisionLog') = Len(revisionLog) + 1
  /\ revisionLog'[1].actor = "ai"

\* C2: in both approaches, a round whose answer is applied showed the agent
\* the document the editor held when the round started, so that no edit a
\* person made before the round is replaced unseen.
C2_EditsShownToAgent ==
  [][RoundApplied => ShownDoc(rounds[1]) = rounds[1].baseDoc]_vars

\* C3: at most one round is in flight and the lock is set while it is; a
\* request is sent only when no round is in flight, and the lock is released
\* only by the step that ends the round in flight.
C3_ReentrancyGuard ==
  /\ [](Len(rounds) <= 1 /\ (rounds # << >> => aiRunning))
  /\ [][Len(rounds') > Len(rounds) => (rounds = << >> /\ ~aiRunning)]_vars
  /\ [][(aiRunning /\ ~aiRunning') => (rounds # << >> /\ rounds' = << >>)]_vars

\* a round of handleChatSend is in flight
C3_Witness ==
  Len(rounds) = 1 /\ rounds[1].kind = "chat" /\ aiRunning /\ chatRunning

\* C4: while the lock is set the callback of the 700 ms timer changes
\* neither canonicalMarkdown nor the revision log.
C4_AutosaveSerialized ==
  [][(aiRunning /\ DebounceFire)
     => UNCHANGED << canonicalMarkdown, revisionLog >>]_vars

\* what a person does on the page: typing, rollback, save checkpoint,
\* Run A / Run B
UserAction ==
  \/ \E d \in HumanDocs : HumanEdit(d)
  \/ \E i \in 1..Len(revisionLog) : handleRollback(i)
  \/ handleCheckpoint
  \/ \E a \in { "A", "B" } : resetForApproach(a)

\* C5: while a round is in flight no action of a person changes the document
\* of the live editor.
C5_NoUserMutationInFlight ==
  [][(rounds # << >> /\ UserAction) => editorDoc' = editorDoc]_vars

\* the two serialized documents of the pair
Raw1 == JsonStringify(pair[1])
Raw2 == JsonStringify(pair[2])

\* C6 as stated: two documents whose serialized contents differ never get
\* the same fingerprint.
C6_NoCollision ==
  (Len(prints) = 2 /\ Raw1 # Raw2) => prints[1] # prints[2]

\* the serialized contents have the same length and differ in exactly one
\* code unit
OneUnitApart ==
  /\ Len(Raw1) = Len(Raw2)
  /\ Cardinality({ k \in 1..Len(Raw1) : Raw1[k] # Raw2[k] }) = 1

\* C6, amended: two documents whose serialized contents have the same length
\* and differ in exactly one code unit get different fingerprints.
C6_OneUnitApartDiffer ==
  (Len(prints) = 2 /\ OneUnitApart) => prints[1] # prints[2]

\* both fingerprints of such a pair are computed
C6_Witness == Len(prints) = 2 /\ OneUnitApart /\ prints[1] # prints[2]

C8_EndsUnlocked == aiRunning ~> (~aiRunning /\ ~chatRunning)

\* a round of handleChatSend ended on a non-OK status, unlocked
C8_Witness ==
  /\ ~aiRunning /\ ~chatRunning /\ rounds = << >>
  /\ chatMessages # << >>
  /\ chatMessages[1].text = TransportText("status", "Chat error: ")

\* the request of round i failed: fetch rejected, the status was not OK, the
\* body was not JSON, or (handleAiEdit, approach A) data.ops is not an array
RequestFailed(i, resp) ==
  \/ resp.kind # "data"
  \/ rounds[i].kind = "edit" /\ rounds[i].approach = "A" /\ ~resp.hasOps

\* the messages of the catch blocks for a failed request
FailureTexts ==
  { TransportText(kind, label) :
      kind \in { "reject", "status", "badjson" },
      label \in { "Agent error: ", "Chat error: " } }
  \cup { Text("AI edit returned no ops", << >>) }

IsFailureReport(t) ==
  /\ t \notin { StatusText, ReplyText, Text("No reply", << >>), ConflictText }
  /\ (t.nums # << >> => t.nums[1] = 0)

\* C10: in both handlers of approach A, for a batch that passed the
\* fingerprint check, a failure is reported exactly when applyAiOps applied
\* nothing.
C10_FailureIffNoneApplied ==
  [][\A i \in 1..Len(rounds) :
       (rounds' # rounds /\ CurrentHash(i) = rounds[i].baseHash)
       => \A resp \in Responses :
            (HasBatch(i, resp) /\ Answered(i, resp))
            => ((\E t \in PushedTexts : IsFailureReport(t))
                  <=> applyAiOps(RoundEditorDoc(rounds[i]),
                                 resp.ops).applied = 0)]_vars

\* applied plus the number of recorded errors of a result of applyAiOps
AppliedPlusErrors(r) == r.applied + Len(r.errors)

\* C11: after every operation of a batch, and for the value applyAiOps
\* returns, applied plus the number of recorded errors is at most the length
\* of the batch.
C11_AppliedPlusErrorsBounded ==
  /\ AppliedPlusErrors(engine) <= engine.done
  /\ engine.done <= Len(engine.ops)
  /\ AppliedPlusErrors(applyAiOps(engine.start, engine.ops))
       <= Len(engine.ops)

\* a batch of two operations ended with one applied and one error
C11_Witness ==
  /\ engine.done = 2 /\ Len(engine.ops) = 2
  /\ engine.applied = 1 /\ Len(engine.errors) = 1

\* the call has run the body of forEach for every operation of its batch
EngineDone == engine.done = Len(engine.ops)

\* C12: an error of one operation does not end the batch.  What applyAiOps
\* returns is what running every operation in batch order leaves, every
\* operation was counted as applied or recorded an error, and the batch
\* [rename_heading("Missing", "X"), append_markdown("## New\nbody")] on a
\* document without a heading "Missing" returns applied = 1 and the one error
\* "Heading not found: Missing" and leaves the document with a trailing
\* heading "New" and paragraph "body".
C12_ErrorsNotFatal ==
  EngineDone =>
    /\ applyAiOps(engine.start, engine.ops)
         = Outcome(engine.doc, engine.applied, engine.errors)
    /\ AppliedPlusErrors(engine) = Len(engine.ops)
    /\ engine.ops = MissingThenAppend.ops =>
         /\ engine.applied = 1
         /\ engine.errors = << Err("Heading not found: ", TextMissing) >>
         /\ engine.doc = engine.start
                           \o << Heading(2, TextNew), Paragraph(TextBody) >>

\* that batch has run
C12_Witness ==
  /\ EngineDone
  /\ engine.ops = MissingThenAppend.ops
  /\ engine.start = MissingThenAppend.start
  /\ engine.errors # << >>

\* the number of headings of doc whose trimmed text is text
HeadingCount(doc, text) ==
  Cardinality({ i \in 1..Len(doc) :
                  doc[i].level > 0 /\ trim(doc[i].text) = text })

RenameAToB == Op("rename_heading", << 97 >>, << 98 >>, 0, << >>)
DeleteA == Op("delete_section", << 97 >>, << >>, 0, << >>)
DeleteB == Op("delete_section", << 98 >>, << >>, 0, << >>)

\* C13: the second operation of a batch is resolved against the document the
\* first one left.  [rename_heading(a, b), delete_section(b)] applies both
\* when the document had a heading "a" and no heading "b";
\* [delete_section(a), rename_heading(a, b)] records "Heading not found: a"
\* for the second when "a" was the text of one heading only; and what
\* applyAiOps returns for two operations is the outcome of the second on
\* the document applyAiOps leaves for the first alone.
C13_OpsSeePreviousResult ==
  (EngineDone /\ Len(engine.ops) = 2) =>
    /\ (/\ engine.ops = << RenameAToB, DeleteB >>
        /\ HeadingCount(engine.start, << 97 >>) > 0
        /\ HeadingCount(engine.start, << 98 >>) = 0)
       => (engine.applied = 2 /\ engine.errors = << >>)
    /\ (/\ engine.ops = << DeleteA, RenameAToB >>
        /\ HeadingCount(engine.start, << 97 >>) = 1)
       => (/\ engine.applied = 1
           /\ engine.errors = << Err("Heading not found: ", << 97 >>) >>)
    /\ engine.doc =
         ApplyOp(applyAiOps(engine.start, << engine.ops[1] >>).doc,
                 engine.ops[2]).doc

\* [rename_heading(a, b), delete_section(b)] applied both on a document
\* that had no heading "b"
C13_Witness ==
  /\ EngineDone
  /\ engine.ops = << RenameAToB, DeleteB >>
  /\ HeadingCount(engine.start, << 98 >>) = 0
  /\ engine.applied = 2

\* the operation the loop ran last, and whether it addresses a heading and
\* carries the fields its branch asks for
LastOp == engine.ops[engine.done]

AddressesHeading(op) ==
  /\ op.op \in { "rename_heading", "delete_section",
                 "replace_section_by_heading", "insert_after_heading" }
  /\ trim(op.heading) # << >>
  /\ op.op = "rename_heading" => trim(op.newHeading) # << >>
  /\ op.op \in { "replace_section_by_heading", "insert_after_heading" }
       => isNonEmptyString(op.markdown)

\* the blocks of doc that are headings with the trimmed text of key and,
\* when level is given, that level
Candidates(doc, key, level) ==
  { i \in 1..Len(doc) : /\ doc[i].level > 0
                        /\ trim(doc[i].text) = trim(key)
                        /\ (level # 0 => doc[i].level = level) }

FirstCandidate(doc, key, level) ==
  CHOOSE i \in Candidates(doc, key, level) :
    \A j \in Candidates(doc, key, level) : i <= j

\* what the operation op did to block i of document before, seen in the
\* document after: a rename changed the text of block i, a deletion cut the
\* document at block i, a replacement or an insertion put its content right
\* after block i
ActedOnBlock(before, after, op, i) ==
  LET upTo == SubSeq(before, 1, i)
      body == ParseMarkdown(stripMatchingHeading(op.markdown, trim(op.heading),
                                                 before[i].level))
  IN  IF op.op = "rename_heading"
        THEN after = [before EXCEPT ![i].text = trim(op.newHeading)]
      ELSE IF op.op = "delete_section"
        THEN \E j \in (i + 1)..(Len(before) + 1) :
               after = FillDoc(SubSeq(before, 1, i - 1)
                               \o SubSeq(before, j, Len(before)))
      ELSE IF op.op = "insert_after_heading"
        THEN after = upTo \o body \o SubSeq(before, i + 1, Len(before))
      ELSE \E j \in (i + 1)..(Len(before) + 1) :
             after = upTo \o body \o SubSeq(before, j, Len(before))

\* C14: an operation that addresses a heading acts on the first block, in
\* document order, that is a heading whose trimmed text is the trimmed key
\* and, when the operation gives a level, whose level is that level; with no
\* level the first heading with that text is taken whatever its level; when
\* no heading qualifies (a heading of another level than the one given does
\* not) the document is unchanged and "Heading not found" is recorded.
C14_FirstMatchTargeting ==
  (engine.done > 0 /\ AddressesHeading(LastOp)) =>
    IF Candidates(engine.prev, LastOp.heading, LastOp.level) = {}
      THEN /\ engine.doc = engine.prev
           /\ engine.errors # << >>
           /\ engine.errors[Len(engine.errors)]
                = Err("Heading not found: ", trim(LastOp.heading))
      ELSE ActedOnBlock(engine.prev, engine.doc, LastOp,
             FirstCandidate(engine.prev, LastOp.heading, LastOp.level))

\* delete_section with level 2 ran on a document whose first heading "a" has
\* level 1 and which has a later heading "a" of level 2: two candidates by
\* text, and the level decides
C14_Witness ==
  /\ engine.done = 1
  /\ LastOp.op = "delete_section" /\ LastOp.level = 2
  /\ Candidates(engine.prev, LastOp.heading, 2) # {}
  /\ FirstCandidate(engine.prev, LastOp.heading, 0)
       < FirstCandidate(engine.prev, LastOp.heading, 2)
  /\ engine.applied = 1

\* the headings of doc as readHeadings lists them, without their positions
HeadingList(doc) ==
  LET headings == readHeadings(doc)
  IN  [k \in 1..Len(headings) |->
         [level |-> headings[k].level, text |-> headings[k].text]]

\* the sequence s without its elements from index a up to index b - 1
Without(s, a, b) == SubSeq(s, 1, a - 1) \o SubSeq(s, b, Len(s))

\* the number of headings of doc with the trimmed text of key and the level
HeadingCountAt(doc, key, level) ==
  Cardinality({ i \in 1..Len(doc) : /\ doc[i].level = level
                                    /\ trim(doc[i].text) = trim(key) })

DeleteApplied ==
  /\ engine.done > 0
  /\ LastOp.op = "delete_section"
  /\ Candidates(engine.prev, LastOp.heading, LastOp.level) # {}

SectionEnd(doc, i) ==
  LET later == { j \in (i + 1)..Len(doc) :
                   doc[j].level > 0 /\ doc[j].level <= doc[i].level }
  IN  IF later = {} THEN Len(doc) + 1
      ELSE CHOOSE j \in later : \A k \in later : j <= k

\* C16: delete_section removes the blocks from the target heading up to, not
\* including, the next heading whose level is at most the target's, or up
\* to the end of the document; the blocks before the target and the blocks
\* from that boundary on are what is left, unchanged and in their order
\* (a document left with no block holds one empty paragraph).
C16_DeletesExactlySection ==
  DeleteApplied =>
    LET i == FirstCandidate(engine.prev, LastOp.heading, LastOp.level)
        j == SectionEnd(engine.prev, i)
        rest == SubSeq(engine.prev, 1, i - 1)
                  \o SubSeq(engine.prev, j, Len(engine.prev))
    IN  IF rest = << >> THEN engine.doc = EmptyDoc ELSE engine.doc = rest

\* delete_section removed a deeper heading with its target and kept the
\* heading that ended the section
C16_Witness ==
  /\ DeleteApplied
  /\ LET i == FirstCandidate(engine.prev, LastOp.heading, LastOp.level)
         j == SectionEnd(engine.prev, i)
     IN  /\ i + 1 < j
         /\ engine.prev[i + 1].level > engine.prev[i].level
         /\ j <= Len(engine.prev)
         /\ engine.doc = << engine.prev[j] >>

RenameApplied ==
  /\ engine.done > 0
  /\ LastOp.op = "rename_heading"
  /\ trim(LastOp.newHeading) # << >>
  /\ Candidates(engine.prev, LastOp.heading, LastOp.level) # {}

\* C17: renaming a heading to its own text leaves the serialized document
\* as it was: after rename_heading(h, h) on an address that resolves, the
\* JSON of the document is the JSON before, also when the text of the
\* heading has white space around it.
C17_RenameToSelfIsIdentity ==
  (RenameApplied /\ trim(LastOp.newHeading) = trim(LastOp.heading)) =>
    JsonStringify(engine.doc) = JsonStringify(engine.prev)

\* C18: rename_heading changes the text of the target heading and nothing
\* else: the document has the same number of blocks, the target keeps its
\* level and its place and has the new text, every other block is the block
\* it was, so the headings are as many as before and in the same order; on
\* the level-2 headings [Overview, Steps, Risks],
\* rename_heading("Risks", "Open Risks") gives [Overview, Steps, Open Risks].
C18_RenameChangesOnlyText ==
  RenameApplied =>
    LET i == FirstCandidate(engine.prev, LastOp.heading, LastOp.level)
    IN  /\ Len(engine.doc) = Len(engine.prev)
        /\ engine.doc[i].level = engine.prev[i].level
        /\ engine.doc[i].text = trim(LastOp.newHeading)
        /\ \A j \in 1..Len(engine.prev) :
             j # i => engine.doc[j] = engine.prev[j]
        /\ Len(HeadingList(engine.doc)) = Len(HeadingList(engine.prev))
        /\ (engine.start = RenameRisks.start /\ engine.ops = RenameRisks.ops)
             => HeadingList(engine.doc)
                  = << [level |-> 2, text |-> TextOverview],
                       [level |-> 2, text |-> TextSteps],
                       [level |-> 2, text |-> TextOpenRisks] >>

\* the rename of "Risks" on [Overview, Steps, Risks] ran and changed the
\* document
C18_Witness ==
  /\ RenameApplied
  /\ engine.start = RenameRisks.start
  /\ engine.ops = RenameRisks.ops
  /\ engine.doc # engine.prev

\* replace_section_by_heading or insert_after_heading ran on an address
\* that resolves, with content whose first line is a heading line with the
\* text of the matched heading
LeadingLineRepeatsTarget ==
  /\ engine.done > 0
  /\ LastOp.op \in { "replace_section_by_heading", "insert_after_heading" }
  /\ isNonEmptyString(LastOp.markdown)
  /\ Candidates(engine.prev, LastOp.heading, LastOp.level) # {}
  /\ parseLeadingHeading(LastOp.markdown).matched
  /\ parseLeadingHeading(LastOp.markdown).text = trim(LastOp.heading)

\* C19 as stated: whatever the level written in the leading heading line of
\* the content, the line is stripped, so the document has no more headings
\* with the text of the matched heading after the operation than before.
C19_NeverDuplicatesHeading ==
  LeadingLineRepeatsTarget =>
    HeadingCount(engine.doc, trim(LastOp.heading))
      <= HeadingCount(engine.prev, trim(LastOp.heading))

\* C19 as the code has it: the leading heading line is stripped when it has
\* the text and the level of the matched heading, and then the document has
\* no more headings with that text than before, whether or not the
\* operation gave a level; a leading line of another level is inserted with
\* the rest, as a heading right after the matched one.
C19_StripsSameLevelLine ==
  LeadingLineRepeatsTarget =>
    LET i == FirstCandidate(engine.prev, LastOp.heading, LastOp.level)
        parsed == parseLeadingHeading(LastOp.markdown)
    IN  IF parsed.level = engine.prev[i].level
          THEN HeadingCount(engine.doc, trim(LastOp.heading))
                 <= HeadingCount(engine.prev, trim(LastOp.heading))
          ELSE engine.doc[i + 1] = Heading(parsed.level, parsed.text)

\* insert_after_heading without a level ran with content "## a", "N" on a
\* level-2 heading "a": the line was stripped and the paragraph follows the
\* heading
C19_Witness ==
  /\ LeadingLineRepeatsTarget
  /\ LastOp.op = "insert_after_heading" /\ LastOp.level = 0
  /\ LET i == FirstCandidate(engine.prev, LastOp.heading, LastOp.level)
     IN  /\ engine.prev[i].level = 2
         /\ engine.doc[i + 1] = Paragraph(<< 78 >>)
         /\ Len(engine.doc) = Len(engine.prev) + 1

ReplaceApplied ==
  /\ engine.done > 0
  /\ LastOp.op = "replace_section_by_heading"
  /\ isNonEmptyString(LastOp.markdown)
  /\ Candidates(engine.prev, LastOp.heading, LastOp.level) # {}

\* C20: replace_section_by_heading replaces the body of the section only:
\* the blocks up to and including the matched heading are unchanged (the
\* heading keeps its place, level and text), the blocks after the heading
\* up to, not including, the next heading whose level is at most the
\* target's (or up to the end of the document) are replaced by the parsed
\* content, and the blocks from that boundary on follow unchanged.
C20_ReplacesBodyOnly ==
  ReplaceApplied =>
    LET i == FirstCandidate(engine.prev, LastOp.heading, LastOp.level)
        j == SectionEnd(engine.prev, i)
        body == ParseMarkdown(stripMatchingHeading(LastOp.markdown,
                  trim(LastOp.heading), engine.prev[i].level))
        kept == Len(engine.prev) - j + 1
    IN  /\ SubSeq(engine.doc, 1, i) = SubSeq(engine.prev, 1, i)
        /\ SubSeq(engine.doc, Len(engine.doc) - kept + 1, Len(engine.doc))
             = SubSeq(engine.prev, j, Len(engine.prev))
        /\ Len(engine.doc) = i + Len(body) + kept
        /\ SubSeq(engine.doc, i + 1, i + Len(body)) = body

\* a replacement ran on a section that had a body block and was followed by
\* another section, after a block that is not part of it
C20_Witness ==
  /\ ReplaceApplied
  /\ Len(engine.prev) = 3
  /\ LET i == FirstCandidate(engine.prev, LastOp.heading, LastOp.level)
     IN  /\ i = 1
         /\ SectionEnd(engine.prev, i) = 3
         /\ engine.doc[2] # engine.prev[2]
         /\ engine.doc[Len(engine.doc)] = engine.prev[3]

InsertApplied ==
  /\ engine.done > 0
  /\ LastOp.op = "insert_after_heading"
  /\ isNonEmptyString(LastOp.markdown)
  /\ Candidates(engine.prev, LastOp.heading, LastOp.level) # {}

\* the blocks insert_after_heading inserts: the parsed content, without its
\* leading heading line when that line repeats block i
InsertedBlocks(i) ==
  ParseMarkdown(stripMatchingHeading(LastOp.markdown, trim(LastOp.heading),
                                     engine.prev[i].level))

\* C21: insert_after_heading puts the parsed content right after the
\* matched heading and deletes nothing: the document after is the blocks up
\* to and including the heading, then the inserted blocks, then every block
\* that followed the heading, the section's body first.
C21_InsertsRightAfterHeading ==
  InsertApplied =>
    LET i == FirstCandidate(engine.prev, LastOp.heading, LastOp.level)
    IN  /\ Len(engine.doc) = Len(engine.prev) + Len(InsertedBlocks(i))
        /\ engine.doc = SubSeq(engine.prev, 1, i) \o InsertedBlocks(i)
                          \o SubSeq(engine.prev, i + 1, Len(engine.prev))

\* an insertion ran on a section that had a body paragraph: the inserted
\* block follows the heading and the paragraph follows the inserted block
C21_Witness ==
  /\ InsertApplied
  /\ LET i == FirstCandidate(engine.prev, LastOp.heading, LastOp.level)
     IN  /\ i < Len(engine.prev)
         /\ engine.prev[i + 1].level = 0
         /\ InsertedBlocks(i) # << >>
         /\ engine.doc[i + 1] = InsertedBlocks(i)[1]
         /\ engine.doc[i + 1 + Len(InsertedBlocks(i))] = engine.prev[i + 1]

\* the body of the section of heading block i: the blocks after it up to
\* the end of its section
SectionBody(doc, i) == SubSeq(doc, i + 1, SectionEnd(doc, i) - 1)

InsertReviewDone ==
  /\ engine.start = InsertReview.start
  /\ engine.ops = InsertReview.ops
  /\ EngineDone

ThreeItems ==
  << Paragraph(TextItem1), Paragraph(TextItem2), Paragraph(TextItem3) >>

\* C22 as stated: insert_after_heading("Steps", level 2, "4. Review") on a
\* "Steps" section of three items gives a section body of the three items
\* followed by item 4.
C22_ItemFourAfterItems ==
  InsertReviewDone =>
    SectionBody(engine.doc, 1) = ThreeItems \o ParseMarkdown(MarkdownItem4)

\* C22 as the code has it: the operation is applied, item 4 is the first
\* block of the section body, right after the heading "Steps", and the
\* three items follow it in their order; the next section is as it was.
C22_ItemFourBeforeItems ==
  InsertReviewDone =>
    /\ engine.applied = 1 /\ engine.errors = << >>
    /\ engine.doc[1] = Heading(2, TextSteps)
    /\ SectionBody(engine.doc, 1) = ParseMarkdown(MarkdownItem4) \o ThreeItems
    /\ engine.doc[Len(engine.doc)] = Heading(2, TextRisks)

\* the insertion of "4. Review" under "Steps" ran and the document grew by
\* one block
C22_Witness ==
  /\ InsertReviewDone
  /\ Len(engine.doc) = Len(engine.start) + 1

\* C23: insert_after_heading leaves what follows the section untouched:
\* every block from the heading of the next section on is the block it
\* was, in the same order, at its old position plus the size of the
\* inserted content; the blocks up to and including the matched heading
\* keep their content and their positions.
C23_FollowingSectionsShifted ==
  InsertApplied =>
    LET i == FirstCandidate(engine.prev, LastOp.heading, LastOp.level)
        j == SectionEnd(engine.prev, i)
        n == Len(InsertedBlocks(i))
        size == ContentSize(InsertedBlocks(i))
    IN  /\ ContentSize(engine.doc) = ContentSize(engine.prev) + size
        /\ \A k \in j..Len(engine.prev) :
             /\ engine.doc[k + n] = engine.prev[k]
             /\ BlockPos(engine.doc, k + n) = BlockPos(engine.prev, k) + size
        /\ \A k \in 1..i :
             /\ engine.doc[k] = engine.prev[k]
             /\ BlockPos(engine.doc, k) = BlockPos(engine.prev, k)

\* an insertion ran under a heading that is not the first block and whose
\* section has a body and is followed by another section
C23_Witness ==
  /\ InsertApplied
  /\ LET i == FirstCandidate(engine.prev, LastOp.heading, LastOp.level)
         j == SectionEnd(engine.prev, i)
     IN  /\ i > 1 \/ j > i + 1
         /\ j <= Len(engine.prev)
         /\ ContentSize(InsertedBlocks(i)) > 0
         /\ BlockPos(engine.doc, j + Len(InsertedBlocks(i)))
              > BlockPos(engine.prev, j)

AppendRan == engine.done > 0 /\ LastOp.op = "append_markdown"

\* C24: append_markdown with content that is not blank is applied and adds
\* the parsed content at the end: the document after is the document
\* before followed by the parsed blocks; with content that is absent,
\* empty or white space only it records the one error "Missing markdown in
\* op", is not applied, and leaves the document as it was.
C24_AppendAtEnd ==
  AppendRan =>
    IF trim(LastOp.markdown) # << >>
      THEN /\ engine.doc = engine.prev \o ParseMarkdown(LastOp.markdown)
           /\ ApplyOp(engine.prev, LastOp) = Outcome(engine.doc, 1, << >>)
           /\ engine.done = 1 => (engine.applied = 1 /\ engine.errors = << >>)
      ELSE /\ engine.doc = engine.prev
           /\ ApplyOp(engine.prev, LastOp)
                = Outcome(engine.prev, 0,
                          << Err("Missing markdown in op", << >>) >>)
           /\ engine.done = 1 =>
                /\ engine.applied = 0
                /\ engine.errors = << Err("Missing markdown in op", << >>) >>

\* append_markdown ran as the second operation on a document of several
\* blocks and added its blocks at the end
C24_Witness ==
  /\ AppendRan
  /\ engine.done = 2
  /\ Len(engine.prev) > 1
  /\ trim(LastOp.markdown) # << >>
  /\ Len(engine.doc) > Len(engine.prev)
  /\ engine.doc[Len(engine.doc)] = Paragraph(<< 78 >>)

KnownTags ==
  { "append_markdown", "rename_heading", "delete_section",
    "replace_section_by_heading", "insert_after_heading" }

UnknownOpRan == engine.done > 0 /\ LastOp.op \notin KnownTags

\* C25: an operation whose tag is none of the five known tags records the
\* error "Unknown op: <tag>", with or without a heading field and whether
\* or not the heading resolves; it is not applied and the document is
\* unchanged.
C25_UnknownOpReported ==
  UnknownOpRan =>
    /\ engine.doc = engine.prev
    /\ ApplyOp(engine.prev, LastOp)
         = Outcome(engine.prev, 0, << ErrUnknownOp(LastOp.op) >>)

\* the entry an approach A round adds for the result of its batch
BatchRevision(result) == << AiRevision("A", result.doc, << >>) >>

\* C26: the answer to an approach A round, in both handlers, adds a
\* revision entry of actor ai exactly when it carries a batch, the
\* fingerprint of the round's document is the round's base fingerprint and
\* the batch applied at least one operation; it then adds that one entry, at
\* the head of the log, and the entry's snapshot is the document the whole
\* batch left (the document of the editor when the round's editor is the
\* live one); in every other case the log stays as it is.
C26_AiRevisionIffApplied ==
  [][\A i \in 1..Len(rounds) :
       (rounds' # rounds /\ rounds[i].approach = "A")
       => \A resp \in Responses :
            Answered(i, resp)
            => IF /\ HasBatch(i, resp)
                  /\ CurrentHash(i) = rounds[i].baseHash
                  /\ applyAiOps(RoundEditorDoc(rounds[i]),
                                resp.ops).applied > 0
                 THEN /\ revisionLog' =
                           BatchRevision(applyAiOps(RoundEditorDoc(rounds[i]),
                                                    resp.ops))
                             \o revisionLog
                      /\ rounds[i].live
                           => editorDoc' = revisionLog'[1].snapshotDoc
                 ELSE revisionLog' = revisionLog]_vars

\* an approach A round ended after a batch of two operations of which one
\* was applied: the warning is in the chat and the entry of actor ai holds
\* the document
C26_Witness ==
  /\ rounds = << >> /\ approach = "A"
  /\ \E k \in 1..Len(chatMessages) :
       chatMessages[k].text.nums = << 1, 2, 0 >>
  /\ Len(revisionLog) = 1
  /\ revisionLog[1].actor = "ai"
  /\ revisionLog[1].snapshotDoc = editorDoc

\* Run A / Run B
RunApproach == \E a \in { "A", "B" } : resetForApproach(a)

\* the step leaves the log as it is or puts new entries before the ones it
\* had
LogGrowsAtHead ==
  /\ Len(revisionLog') >= Len(revisionLog)
  /\ SubSeq(revisionLog', Len(revisionLog') - Len(revisionLog) + 1,
            Len(revisionLog')) = revisionLog

\* C27 as stated: no step of the program, Run A / Run B included, removes
\* or alters an entry of the revision log; new entries go to index 0.
C27_LogAppendOnly == [][LogGrowsAtHead]_vars

\* C27 as the code has it: Run A / Run B empties the revision log; every
\* other step (typing, auto-save, checkpoint, rollback, the start and the
\* end of a round) leaves the log as it is or puts one new entry at index
\* 0 and keeps the earlier entries, unchanged and in their order, behind it.
C27_LogAppendOnlyUntilReset ==
  [][IF RunApproach THEN revisionLog' = << >>
     ELSE /\ LogGrowsAtHead
          /\ Len(revisionLog') <= Len(revisionLog) + 1]_vars

\* the log holds a checkpoint and, before it, the auto-save that came later
C27_Witness ==
  /\ Len(revisionLog) = 2
  /\ revisionLog[1].summary = "Auto-save (idle)"
  /\ revisionLog[2].summary = "Human checkpoint (markdown)"

\* C28: in every reachable state every entry of the revision log has the
\* approach that is active.
C28_LogScopedToApproach ==
  \A k \in 1..Len(revisionLog) : revisionLog[k].approach = approach

\* the document content a revision entry stands for: its tree (approach A)
\* or the document its markdown is set as (approach B)
SnapshotContent(entry) ==
  IF entry.approach = "A" THEN FillDoc(entry.snapshotDoc)
  ELSE SetContentMarkdown(entry.snapshotMd)

\* C29: in both approaches Save checkpoint stores a snapshot whose content
\* is the content of the editor's document at that moment, and a rollback
\* to an entry makes the content of the live document the content of the
\* entry's snapshot, whatever was edited since.
C29_RollbackExact ==
  /\ [][handleCheckpoint
        => (/\ Len(revisionLog') = Len(revisionLog) + 1
            /\ SnapshotContent(revisionLog'[1]) = editorDoc)]_vars
  /\ [][\A i \in 1..Len(revisionLog) :
          handleRollback(i)
          => editorDoc' = SnapshotContent(revisionLog[i])]_vars

\* what formatOpResultMessage returns for the finished call of applyAiOps
Warning ==
  formatOpResultMessage(Outcome(engine.doc, engine.applied, engine.errors),
                        Len(engine.ops))

\* C30: for the result of a batch, formatOpResultMessage returns no message
\* exactly when the batch recorded no error; otherwise the message is
\* "Applied X/Y ops." with X the number of applied operations and Y the
\* length of the batch, then the first three errors (all of them when there
\* are fewer) in the order of the batch, and the mark for more exactly when
\* there are more than three errors.
C30_WarningSummarizedAndCapped ==
  EngineDone =>
    LET n == Len(engine.errors)
    IN  /\ Warning = << >> <=> n = 0
        /\ n > 0 =>
             /\ Len(Warning) = 1
             /\ Warning[1].msg = "Applied X/Y ops. Failed: "
             /\ Warning[1].nums[1] = engine.applied
             /\ Warning[1].nums[2] = Len(engine.ops)
             /\ Len(Warning[1].errs) = (IF n < 3 THEN n ELSE 3)
             /\ \A k \in 1..Len(Warning[1].errs) :
                  Warning[1].errs[k] = engine.errors[k]
             /\ Warning[1].nums[3] = 1 <=> n > 3

\* a batch of five operations ended with one applied and four errors of
\* two kinds
C30_Witness ==
  /\ EngineDone
  /\ Len(engine.ops) = 5
  /\ engine.applied = 1
  /\ Len(engine.errors) = 4
  /\ engine.errors[1] # engine.errors[4]

\* the step ran one operation and counted it as applied, with no error
StepApplied ==
  /\ engine'.applied = engine.applied + 1
  /\ engine'.errors = engine.errors

\* the step ran one operation and put one error behind the errors so far,
\* without counting it as applied
StepFailed ==
  /\ engine'.applied = engine.applied
  /\ Len(engine'.errors) = Len(engine.errors) + 1
  /\ SubSeq(engine'.errors, 1, Len(engine.errors)) = engine.errors

\* C32: every operation of a batch has exactly one outcome: it adds one to
\* applied or it puts one error at the end of errors, never both and never
\* neither; so after the batch applied + errors.length is the length of the
\* batch, and the errors are in the order of the operations that caused
\* them.
C32_OneOutcomePerOp ==
  /\ [][ApplyNextOp =>
          /\ StepApplied \/ StepFailed
          /\ ~(StepApplied /\ StepFailed)]_vars
  /\ [](EngineDone => AppliedPlusErrors(engine) = Len(engine.ops))

\* a batch of five operations ended with two applied and three errors
C32_Witness ==
  /\ EngineDone
  /\ Len(engine.ops) = 5
  /\ engine.applied = 2
  /\ Len(engine.errors) = 3

\* the operations of ops, from index i on, that are applied when the batch
\* runs on doc
RECURSIVE AppliedOps(_, _, _)
AppliedOps(doc, ops, i) ==
  IF i > Len(ops) THEN << >>
  ELSE LET r == ApplyOp(doc, ops[i])
       IN  (IF r.applied = 1 THEN << ops[i] >> ELSE << >>)
           \o AppliedOps(r.doc, ops, i + 1)

\* C33: an operation that records an error leaves the document as it was
\* before that operation, whatever the error (a missing field, a heading
\* that is not found, an unknown tag); so the document after the batch is
\* the document that the applied operations alone, in their order, give.
C33_ErrorLeavesDocument ==
  /\ [][(ApplyNextOp /\ Len(engine'.errors) > Len(engine.errors))
          => engine'.doc = engine.doc]_vars
  /\ [](EngineDone =>
          engine.doc = applyAiOps(engine.start,
                                  AppliedOps(engine.start, engine.ops, 1)).doc)

\* the second operation of a batch recorded an error after the first one
\* had changed the document
C33_Witness ==
  /\ engine.done = 2
  /\ engine.applied = 1
  /\ Len(engine.errors) = 1
  /\ engine.doc = engine.prev
  /\ engine.doc # engine.start

\* C34: in approach B, when no round is in flight and the debounce timer is
\* not pending, canonicalMarkdown is the normalized markdown of the
\* editor's document.
C34_CanonicalInSync ==
  (approach = "B" /\ rounds = << >> /\ ~aiRunning /\ ~debouncePending)
  => canonicalMarkdown = normalizeMarkdown(getMarkdown(editorDoc))

\* C35: in approach A, in both handlers, an answer that carries no
\* operations array, with or without markdown or html content for a full
\* replacement, changes neither the document nor canonicalMarkdown and adds
\* no revision entry.
C35_NoOpsNoMutation ==
  [][\A i \in 1..Len(rounds) :
       (rounds' # rounds /\ rounds[i].approach = "A")
       => \A resp \in Responses :
            (resp.kind = "data" /\ ~resp.hasOps /\ Answered(i, resp))
            => /\ editorDoc' = editorDoc
               /\ canonicalMarkdown' = canonicalMarkdown
               /\ revisionLog' = revisionLog]_vars

\* a round of handleChatSend in approach A ended on an answer with content
\* and without operations: the chat says so, the edited document is there
\* and the log is empty
C35_Witness ==
  /\ approach = "A" /\ rounds = << >>
  /\ \E k \in 1..Len(chatMessages) :
       chatMessages[k].text = Text("AI did not return ops. Please retry.",
                                   << >>)
  /\ editorDoc # InitialDoc
  /\ revisionLog = << >>

\* C36: in every reachable state chatRunning implies aiRunning; a step that
\* changes chatRunning sets aiRunning to the same value, and no step
\* clears aiRunning and leaves chatRunning set.
C36_ChatRunningImpliesAiRunning ==
  /\ [](chatRunning => aiRunning)
  /\ [][chatRunning' # chatRunning => aiRunning' = chatRunning']_vars
  /\ [][(aiRunning /\ ~aiRunning') => ~chatRunning']_vars

\* a round of handleChatSend of approach B is in flight with both flags set
C36_Witness ==
  /\ approach = "B"
  /\ Len(rounds) = 1 /\ rounds[1].kind = "chat" /\ rounds[1].approach = "B"
  /\ chatRunning /\ aiRunning

\* C37: handleRollback leaves the revision log as it is, for every entry of
\* the log, and for an entry whose approach is not the active one it leaves
\* the document and canonicalMarkdown as they are.
C37_RollbackKeepsLog ==
  [][\A i \in 1..Len(revisionLog) :
       handleRollback(i)
       => /\ revisionLog' = revisionLog
          /\ revisionLog[i].approach # approach
               => /\ editorDoc' = editorDoc
                  /\ canonicalMarkdown' = canonicalMarkdown]_vars

\* the log of approach B holds an entry of approach A whose snapshot is not
\* the document of the editor, and no round is in flight: a rollback to it
\* would change the document
C37_Witness ==
  /\ approach = "B" /\ ~aiRunning /\ rounds = << >>
  /\ revisionLog # << >>
  /\ revisionLog[1].approach = "A"
  /\ SetContentMarkdown(revisionLog[1].snapshotMd) # editorDoc

\* this step puts one entry with this summary at the head of the log
AutoSaved(summary) ==
  /\ revisionLog' # << >>
  /\ Tail(revisionLog') = revisionLog
  /\ Head(revisionLog').summary = summary

\* an auto-save entry is recorded only for a change: the idle save records
\* the normalized markdown of the editor, which differs from
\* canonicalMarkdown; the blur save records the document of the editor, whose
\* serialization differs from the one saved at the last blur
SavedOnChange ==
  /\ AutoSaved("Auto-save (idle)")
       => /\ Head(revisionLog').snapshotMd =
               normalizeMarkdown(getMarkdown(editorDoc))
          /\ Head(revisionLog').snapshotMd # canonicalMarkdown
  /\ AutoSaved("Auto-save (blur)")
       => /\ Head(revisionLog').snapshotDoc = editorDoc
          /\ JsonStringify(editorDoc) # lastSavedJson

\* entries k < m of the log are auto-save entries with this summary, and no
\* entry between them is
Consecutive(k, m, summary) ==
  /\ revisionLog[k].summary = summary
  /\ revisionLog[m].summary = summary
  /\ \A j \in (k + 1)..(m - 1) : revisionLog[j].summary # summary

\* no two consecutive auto-save entries with this summary hold the same
\* snapshot
SnapshotsDiffer(summary) ==
  \A k \in 1..Len(revisionLog) : \A m \in (k + 1)..Len(revisionLog) :
    Consecutive(k, m, summary) => revisionLog[k] # revisionLog[m]

\* C38: as the spec states it: an auto-save records a revision only for a
\* change, and two consecutive auto-save entries of the same kind, idle or
\* blur, never hold identical snapshots.
C38_AutoSaveOnlyOnChange ==
  /\ [][SavedOnChange]_vars
  /\ [](SnapshotsDiffer("Auto-save (idle)"))
  /\ [](SnapshotsDiffer("Auto-save (blur)"))

\* C38, amended: an auto-save records a revision only for a change, and two
\* consecutive blur entries never hold identical snapshots; two consecutive
\* idle entries can, because a rollback puts canonicalMarkdown back without
\* an entry of its own.
C38_AutoSaveOnlyOnChangeBlur ==
  /\ [][SavedOnChange]_vars
  /\ [](SnapshotsDiffer("Auto-save (blur)"))

\* two blur saves with a checkpoint between them
C38_Witness ==
  /\ approach = "A" /\ Len(revisionLog) = 3
  /\ Consecutive(1, 3, "Auto-save (blur)")
  /\ revisionLog[2].summary = "Human checkpoint"

(***************************************************************************)
(* The reference hash: an unsigned 32-bit value as four bytes, the least   *)
(* significant first.                                                      *)
(***************************************************************************)
\* 5381 = 21 * 256 + 5
ReferenceSeed == << HashSeed % 256, HashSeed \div 256, 0, 0 >>

\* the bytes k..4 of (h * 33) mod 2^32, with the carry into byte k
RECURSIVE ReferenceTimes33(_, _, _)
ReferenceTimes33(h, k, carry) ==
  IF k > 4 THEN << >>
  ELSE LET v == (h[k] * 33) + carry
       IN  << v % 256 >> \o ReferenceTimes33(h, k + 1, v \div 256)

\* h := ((h * 33) mod 2^32) XOR c
ReferenceStep(h, c) ==
  LET m == ReferenceTimes33(h, 1, 0)
  IN  << BitXor(m[1], c % 256), BitXor(m[2], c \div 256), m[3], m[4] >>

RECURSIVE ReferenceFold(_, _, _, _)
ReferenceFold(h, raw, from, to) ==
  IF from > to THEN h
  ELSE IF from = to THEN ReferenceStep(h, raw[from])
  ELSE LET mid == (from + to) \div 2
           left == ReferenceFold(h, raw, from, mid)
       IN  IF Len(left) = 4 THEN ReferenceFold(left, raw, mid + 1, to)
           ELSE left

ReferenceHash(raw) == ReferenceFold(ReferenceSeed, raw, 1, Len(raw))

\* the eight hexadecimal digits of h, the most significant first
ReferenceDigits(h) ==
  << h[4] \div 16, h[4] % 16, h[3] \div 16, h[3] % 16,
     h[2] \div 16, h[2] % 16, h[1] \div 16, h[1] % 16 >>

RECURSIVE StripZeros(_)
StripZeros(digits) ==
  IF Len(digits) > 1 /\ Head(digits) = 0 THEN StripZeros(Tail(digits))
  ELSE digits

\* h in base 16, as an unsigned value in [0, 2^32)
ReferenceHex(h) ==
  LET digits == StripZeros(ReferenceDigits(h))
  IN  [k \in 1..Len(digits) |-> HexDigit(digits[k])]

\* the fingerprint of raw is the reference hash, the loop on Numbers gives
\* the same text, and every product of the loop was exact
MatchesReference(print, raw) ==
  /\ print = ReferenceHex(ReferenceHash(raw))
  /\ ToString16(ToBits32(NumberLoop(raw).hash)) = print
  /\ NumberLoop(raw).exact

\* C39: hashDoc returns the hexadecimal text of the 32-bit reference hash of
\* the serialized document (h = 5381; h := ((h * 33) mod 2^32) XOR c for each
\* code unit c), and no product of its loop exceeds what a double holds
\* exactly.
C39_HashIsReference ==
  Len(prints) = 2
  => MatchesReference(prints[1], Raw1) /\ MatchesReference(prints[2], Raw2)

\* a fingerprint whose value as a signed 32-bit integer is negative was
\* computed and is the reference hash
C39_Witness ==
  /\ Len(prints) = 2
  /\ NumberLoop(Raw1).hash.neg
  /\ prints[1] = ReferenceHex(ReferenceHash(Raw1))

\* the text after n cycles from md
RECURSIVE Cycled(_, _, _)
Cycled(cycle, md, n) ==
  IF n = 0 THEN md ELSE Cycled(cycle, cycle[md], n - 1)

\* the markdown stabilizes within the measured cycles: the last of them leaves
\* the text as it found it
Stabilizes(cycle) ==
  LET md == Cycled(cycle, NormalizedInitial, Iterations - 1)
  IN  cycle[md] = md

\* C31: the measurement reports stabilized = true exactly when the markdown
\* stabilizes within the 10 cycles, also when an early cycle changed the
\* text before it settled.
C31_StabilizedIffSettles ==
  trip.returned => (trip.result.stabilized <=> Stabilizes(trip.cycle))

====
